---- MODULE Spec2Model ----
(***************************************************************************)
(* Verification model of the shortshake trading pipeline.                  *)
(*                                                                         *)
(*  Spec         one managed symbol: the pipeline cycle (StrategyService.  *)
(*               process) interleaved with the live price-tick handlers    *)
(*               (handleLivePriceTick) at every await.                     *)
(*  SpecSlots    the candidate loop of process over several symbols and    *)
(*               the executor's slot accounting (createMarketOrder).       *)
(*  SpecThrottle the rate limiter and retry loop of BinanceService.        *)
(*                                                                         *)
(* Numbers.  Prices are integers; quantities are integers in units of      *)
(* 1e-6 contracts, so that `quantity <= 1e-6` reads `q <= QtyEps`.         *)
(* Quantities in [0,1] of the code (efficiency, chop, align, ...) are      *)
(* integers in per-mille; a score of the code (field * 100) is the         *)
(* per-mille field * 100, and a threshold of n score points is Pts(n).     *)
(* R multiples are in hundredths, rounded down, which keeps every          *)
(* comparison with the code's thresholds (0.5, 1, 1.3, 1.5, 2) exact.      *)
(***************************************************************************)
EXTENDS Integers, Sequences, FiniteSets, TLC

VARIABLES
  now,        \* Date.now(), in minutes
  positions,  \* TradingService.positions entry of the symbol (PositionSummary or NoSummary)
  objs,       \* the ManagedPositionState objects ever created, by identity
  mapRef,     \* managedPositions.get(symbol): an object identity, or 0
  subs,       \* identities whose price-stream subscription is active in the executor
  cyc,        \* the running cycle's data: its MoversResult and the stage of process()
  tk,         \* the async invocations: 0 the cycle's, o > 0 handleLivePriceTick on object o
  ticks,      \* price ticks delivered so far
  slot,       \* the executor's position cache over all symbols, the exchange's
              \* positions, the managed symbols and the candidate loop
  thr,        \* BinanceService's limiter: its promise chain, its callers, the clock
  main,       \* bootstrap(): isRunning, isShuttingDown, the timer, the cycle's stage
  pass,       \* process() over several symbols: the managed map in insertion order, the loops
  ts,         \* one position under handleTimeStop: its state, the clock, the pending order call
  fn,         \* the last call of a function followed on its own: its name, input and result
  vol,        \* BinanceService.topVolumeCache, the clock, getTopVolumeSymbols in progress
  mov,        \* getTopMovers in progress: the selection, the chunk, each symbol's fetch
  trade,      \* the TradingService: credentials, caches, the requests it has dispatched
  ctl,        \* BinanceController: the requests served, the calls made on the service
  brk         \* one position under handleStructureBreak: its state, the passes evaluating it

strategyVars == <<now, positions, objs, mapRef, subs, cyc, tk, ticks>>
laterVars == <<fn, vol, mov, trade, ctl, brk>>
earlierVars == <<strategyVars, slot, thr, main, pass, ts>>
vars == <<earlierVars, laterVars>>

-----------------------------------------------------------------------------
(* Bounds of the model *)

MaxObjs == 2
MaxNow == 91
TimeStep == 90
BasePrice == 1000000
EntryQty == 100000
MaxTicks == 2
MaxSymbols == 6
MaxCallers == 2
StartClock == 1000
ClockStep == 50
MaxClock == 1900
RetryStep == 500
RetryHorizon == 9000
MaxFirings == 4
MaxPassSymbols == 3
TsStep == 5
MaxTsNow == 400
MaxVolSymbols == 3
BigUniverse == 170
VolStep == 21600000
MaxVolNow == 129600000
MaxMovers == 10
MaxEntries == 11
SmallEntries == 5
MaxSigned == 9
MaxRequests == 2
MaxBreaks == 3
LatestMinute == 1000
MaxDepth == 120
FairStep == 250

(* Program constants *)

QtyEps == 1
MAX_POSITIONS == 5
HistoryCap == 240
REQUEST_INTERVAL_MS == 150
MAX_RETRY_ATTEMPTS == 5
RETRY_BACKOFF_BASE_MS == 500
MAX_RETRY_BACKOFF_MS == 4000
VOLUME_REFRESH_INTERVAL == 43200000
MAX_SELECTED_SYMBOLS == 80
CONCURRENCY == 8
TOP_MOVERS == 10
ONE_MINUTE_MS == 60000
DEFAULT_LEVERAGE == 5

Undef == 0 - 999999999
Pts(n) == n * 1000

Max2(a, b) == IF a >= b THEN a ELSE b
Min2(a, b) == IF a <= b THEN a ELSE b
Abs(x) == IF x < 0 THEN 0 - x ELSE x
Sign(x) == IF x > 0 THEN 1 ELSE IF x < 0 THEN 0 - 1 ELSE 0
\* a ?? b
Coalesce(a, b) == IF a = Undef THEN b ELSE a

clamp(value, min, max) ==
  IF value < min THEN min ELSE IF value > max THEN max ELSE value

DirSign(direction) == IF direction = "LONG" THEN 1 ELSE 0 - 1

-----------------------------------------------------------------------------
(* Metrics: the inputs of the strategy *)

timeframeMinutes(label) ==
  CASE label = "10m" -> 10
    [] label = "30m" -> 30
    [] label = "1h" -> 60
    [] label = "2h" -> 120
    [] OTHER -> Undef

NonIncreasing10 == <<900, 900, 880, 860, 860, 840, 820, 800, 800, 780>>
Rising3 == <<500, 600, 700>>

\* Two market regimes. "clean": a clean parent trend with confirming volume
\* and flow. "choppy": a weak parent trend, a degrading child efficiency.
Profiles == {"clean", "choppy"}

ParentOf(profile, sgn, price, wide) ==
  [ netSign |-> sgn,
    chop |-> IF profile = "clean" THEN 100 ELSE 400,
    efficiency |-> IF profile = "clean" THEN 800 ELSE 500,
    align |-> IF profile = "clean" THEN 700 ELSE 400,
    volumeBoost |-> 500,
    flowBoost |-> 500,
    smallMoveGate |-> 800,
    momentumAtr |-> 700,
    atrValue |-> 5000,
    latestClose |-> price,
    highestClose |-> IF wide THEN Max2(price, BasePrice + 12000) ELSE Undef,
    lowestClose |-> IF wide THEN Min2(price, BasePrice - 12000) ELSE Undef,
    closeHistory |-> <<price, price>>,
    efficiencyHistory |-> <<>>,
    momentumHistory |-> <<>> ]

ChildOf(profile, sgn, price) ==
  [ netSign |-> sgn,
    chop |-> IF profile = "clean" THEN 100 ELSE 400,
    efficiency |-> IF profile = "clean" THEN 800 ELSE 500,
    align |-> IF profile = "clean" THEN 700 ELSE 400,
    volumeBoost |-> IF profile = "clean" THEN 600 ELSE 500,
    flowBoost |-> IF profile = "clean" THEN 600 ELSE 500,
    smallMoveGate |-> IF profile = "clean" THEN 800 ELSE 500,
    momentumAtr |-> 700,
    atrValue |-> 5000,
    latestClose |-> price,
    highestClose |-> Undef,
    lowestClose |-> Undef,
    closeHistory |-> <<price, price>>,
    efficiencyHistory |-> IF profile = "clean" THEN <<>> ELSE NonIncreasing10,
    momentumHistory |-> IF profile = "clean" THEN Rising3 ELSE <<>> ]

NoMetric == [ netSign |-> 0 ]
IsMetric(m) == "chop" \in DOMAIN m

\* result.metrics[symbol]: the timeframes present and their metrics. The
\* choppy regime carries window extremes on the parent, the clean one none.
MetricsMap(profile, sgn, price) ==
  [ label \in {"30m", "10m"} |->
      IF label = "30m" THEN ParentOf(profile, sgn, price, profile = "choppy")
      ELSE ChildOf(profile, sgn, price) ]

NoMetricsMap == [ label \in {} |-> NoMetric ]

MetricAt(map, label) == IF label \in DOMAIN map THEN map[label] ELSE NoMetric

\* Prices offered by the market: the entry fill and excursions of it in the
\* direction sgn (R = 0.37, 1.11, 2.04 for the clean regime's stop distance)
\* and one adverse price just above the initial stop.
PriceOffsets == {0 - 10000, 4000, 12000, 22000}
Prices(sgn) == { BasePrice + sgn * d : d \in PriceOffsets }

-----------------------------------------------------------------------------
(* Pure helpers of StrategyService *)

signedTrend(metric) ==
  ((1000 - metric.chop) * 100) * Sign(metric.netSign)

computeScores(metric) ==
  [ trend |-> Abs(signedTrend(metric)),
    efficiency |-> metric.efficiency * 100,
    align |-> metric.align * 100,
    volume |-> metric.volumeBoost * 100,
    flow |-> metric.flowBoost * 100 ]

\* (|trend| + efficiency + align) / 300, in per-mille
cleanOf(parentMetric) ==
  (Abs(signedTrend(parentMetric)) + computeScores(parentMetric).efficiency
     + computeScores(parentMetric).align) \div 300

computeTrailAtr(cleanP, gateC) ==
  clamp(2000 + (1200 * cleanP) \div 1000 - (600 * (1000 - gateC)) \div 1000,
        1600, 3200)

computeKSl(cleanP, gateC) ==
  clamp(1200 + (900 * cleanP) \div 1000 + (300 * gateC) \div 1000, 1200, 2800)

RECURSIVE NoRise(_, _)
NoRise(series, i) ==
  IF i > Len(series) THEN TRUE
  ELSE IF series[i] > series[i - 1] THEN FALSE
  ELSE NoRise(series, i + 1)

isDegrading(series) ==
  IF Len(series) < 10 THEN FALSE
  ELSE NoRise(SubSeq(series, Len(series) - 9, Len(series)), 2)

isMomentumTurning(series) ==
  IF Len(series) < 3 THEN FALSE
  ELSE series[Len(series)] - series[Len(series) - 2] < 0

PushCapped(history, price) ==
  LET h == Append(history, price)
  IN IF Len(h) > HistoryCap THEN SubSeq(h, Len(h) - HistoryCap + 1, Len(h)) ELSE h

withLivePrice(metric, price) ==
  [ metric EXCEPT
      !.latestClose = price,
      !.highestClose = Max2(Coalesce(metric.highestClose, price), price),
      !.lowestClose = Min2(Coalesce(metric.lowestClose, price), price),
      !.closeHistory = PushCapped(metric.closeHistory, price) ]

\* The 1h parent taken whenever 1h and 30m exist, whatever its trend
selectFrameworkAnyTrend(metrics) ==
  LET has1h == "1h" \in DOMAIN metrics
      has30m == "30m" \in DOMAIN metrics
      has10m == "10m" \in DOMAIN metrics
  IN IF has1h /\ has30m THEN [parentTimeframe |-> "1h", childTimeframe |-> "30m"]
     ELSE IF has30m /\ has10m THEN [parentTimeframe |-> "30m", childTimeframe |-> "10m"]
     ELSE [parentTimeframe |-> "none", childTimeframe |-> "none"]

selectFramework(metrics) ==
  LET has1h == "1h" \in DOMAIN metrics
      has30m == "30m" \in DOMAIN metrics
      has10m == "10m" \in DOMAIN metrics
      parentVia1h == has1h /\ signedTrend(metrics["1h"]) >= Pts(70)
                       /\ computeScores(metrics["1h"]).efficiency >= Pts(55)
  IN IF parentVia1h /\ has30m THEN [parentTimeframe |-> "1h", childTimeframe |-> "30m"]
     ELSE IF has30m /\ has10m THEN [parentTimeframe |-> "30m", childTimeframe |-> "10m"]
     ELSE IF has1h /\ has30m THEN [parentTimeframe |-> "1h", childTimeframe |-> "30m"]
     ELSE [parentTimeframe |-> "none", childTimeframe |-> "none"]

determineDirection(metric) ==
  LET trend == signedTrend(metric)
      alignScore == computeScores(metric).align
      directionSign == Sign(metric.netSign)
  IN IF trend >= Pts(65) /\ alignScore >= Pts(60) /\ directionSign >= 0 THEN "LONG"
     ELSE IF trend <= 0 - Pts(65) /\ alignScore >= Pts(60) /\ directionSign <= 0 THEN "SHORT"
     ELSE "none"

\* No child trigger is asked for
triggersSatisfiedAlways(direction, metric, scores) == TRUE

triggersSatisfied(direction, metric, scores) ==
  LET gate == metric.smallMoveGate
      momentumSign == Sign(metric.netSign)
      momentumTrigger ==
        /\ gate >= 650
        /\ metric.momentumAtr >= 500
        /\ \/ direction = "LONG" /\ momentumSign >= 0
           \/ direction = "SHORT" /\ momentumSign <= 0
      efficiencyTrigger ==
        /\ scores.efficiency >= Pts(55)
        /\ (scores.volume >= Pts(55) \/ scores.flow >= Pts(55))
  IN momentumTrigger \/ efficiencyTrigger

\* PositionSummary -> quantity on the side of `direction`
extractQuantityForSide(summary, direction) ==
  IF direction = "LONG" THEN Abs(Coalesce(summary.long, summary.net))
  ELSE Abs(Coalesce(summary.short, summary.net))

-----------------------------------------------------------------------------
(* State objects, invocations and the context a synchronous run works on *)

ObjIds == 1..MaxObjs
ThreadIds == 0..MaxObjs

\* ManagedPositionState. Omitted: riskAmount, lastPrice, trailAtrMultiple and
\* parentAtr, which the code writes and never reads.
NewState(plan, avgPrice, quantity, stopPrice, openedAt) ==
  [ live |-> TRUE,
    direction |-> plan.direction,
    parentTimeframe |-> plan.framework.parentTimeframe,
    childTimeframe |-> plan.framework.childTimeframe,
    entryPrice |-> avgPrice,
    baseQuantity |-> quantity,
    totalQuantity |-> quantity,
    kSl |-> plan.kSl,
    slDistance |-> plan.slDistance,
    initialSlDistance |-> plan.slDistance,
    stopPrice |-> stopPrice,
    cleanScore |-> plan.cleanParent,
    gateScore |-> plan.gateChild,
    openedAt |-> openedAt,
    addCount |-> 0,
    beMoved |-> FALSE,
    highestPrice |-> IF plan.direction = "LONG" THEN avgPrice ELSE Undef,
    lowestPrice |-> IF plan.direction = "SHORT" THEN avgPrice ELSE Undef,
    trailPrice |-> Undef,
    partialOneTaken |-> FALSE,
    partialTwoTaken |-> FALSE,
    timeStopStage |-> 0,
    timeStopTimestamp |-> Undef,
    structureBreakCounter |-> 0,
    childAtr |-> plan.childMetric.atrValue,
    parentMinutes |-> Coalesce(timeframeMinutes(plan.framework.parentTimeframe), 60),
    childMinutes |-> Coalesce(timeframeMinutes(plan.framework.childTimeframe), 10),
    maxR |-> 0,
    parentMetricSnapshot |-> plan.parentMetric,
    childMetricSnapshot |-> plan.childMetric,
    processingLiveUpdate |-> FALSE,
    pendingLiveUpdate |-> Undef,
    unsubscribePrice |-> FALSE ]

\* An identity no invocation, map entry or subscription refers to.
NoObj ==
  [ NewState([ direction |-> "LONG",
               framework |-> [parentTimeframe |-> "none", childTimeframe |-> "none"],
               kSl |-> 0, slDistance |-> 0, cleanParent |-> 0, gateChild |-> 0,
               parentMetric |-> NoMetric, childMetric |-> [atrValue |-> 0] ],
             0, 0, 0, 0)
    EXCEPT !.live = FALSE ]

\* An async invocation: where it is suspended and the locals it holds there.
IdleTh ==
  [ pc |-> "idle", obj |-> 0, price |-> 0, parent |-> NoMetric, child |-> NoMetric,
    r |-> 0, pq |-> 0, gen |-> FALSE, clean |-> FALSE, newStop |-> 0,
    k |-> "none" ]

IdleCycle == [ phase |-> 0, metrics |-> NoMetricsMap, candidate |-> FALSE, penalty |-> 0 ]

NoSummary == [ held |-> FALSE ]

\* The suspension points: an awaited executor call.
OrderAwaits ==
  { "be_replace", "trail_replace", "p1_reduce", "p1_replace", "p1_be_replace",
    "p2_reduce", "p2_replace", "a1_increase", "a1_replace", "a2_increase",
    "a2_replace", "ts_replace", "close_cancel", "close_reduce" }
CycleAwaits == { "refresh", "movers", "flatten", "mark", "order", "stop" }
Suspended == OrderAwaits \cup CycleAwaits \cup { "idle" }

Th(c) == c.tk[c.who]
Obj(c) == c.objs[Th(c).obj]
Goto(c, label) == [c EXCEPT !.tk[c.who].pc = label]
Has(c) == c.mapRef # 0
\* if (!this.managedPositions.has(symbol)) return / continue
Guard(c, label) == Goto(c, IF Has(c) THEN label ELSE "END")

\* state.unsubscribePrice?.()
Unsubscribe(c, id) ==
  IF c.objs[id].unsubscribePrice THEN [c EXCEPT !.subs = @ \ {id}] ELSE c

\* this.managedPositions.delete(symbol)
Delete(c) == [c EXCEPT !.mapRef = 0]

\* await this.tradingService.<op>(...): the invocation suspends at `label`.
\* Whether the call returns a response or null (the order failed) is decided
\* when it settles; no caller looks at the value.
Await(c, label, op, quantity) == Goto(c, label)

calculateRMultiple(state, currentPrice) ==
  LET baseDistance == IF state.initialSlDistance # 0 THEN state.initialSlDistance
                      ELSE state.slDistance
  IN IF baseDistance <= 0 THEN 0
     ELSE (100 * DirSign(state.direction) * (currentPrice - state.entryPrice))
            \div baseDistance

\* entryPrice, kept on the safe side of the current price by a 0.05% buffer
BreakEvenStop(state, currentPrice) ==
  IF state.direction = "LONG"
    THEN Min2(state.entryPrice, currentPrice - (5 * currentPrice) \div 10000)
    ELSE Max2(state.entryPrice, currentPrice + (5 * currentPrice) \div 10000)

ensurePriceWatcher(c, id) ==
  IF c.objs[id].totalQuantity <= QtyEps
    THEN [Unsubscribe(c, id) EXCEPT !.objs[id].unsubscribePrice = FALSE]
  ELSE IF c.objs[id].unsubscribePrice THEN c
  ELSE [c EXCEPT !.subs = @ \cup {id}, !.objs[id].unsubscribePrice = TRUE]

-----------------------------------------------------------------------------
(* The management pass, handler by handler.  Each operator runs one handler *)
(* from its start, or from the await it resumes at, to the next await       *)
(* (Await) or to the label of the code that follows it (Goto, Guard).       *)

closePosition(c, k) ==
  LET d == [Unsubscribe(c, Th(c).obj) EXCEPT
              !.objs[Th(c).obj].unsubscribePrice = FALSE,
              !.tk[c.who].k = k]
  IN Await(d, "close_cancel", "cancel", 0)

AfterClose(c) ==
  Goto([c EXCEPT !.tk[c.who].k = "none"],
       CASE Th(c).k = "p1" -> "P1DONE"
         [] Th(c).k = "p2" -> "P2DONE"
         [] Th(c).k = "ts" -> "ATS"
         [] OTHER -> "ASB")

closePositionResume(c) ==
  IF Th(c).pc = "close_cancel" /\ Obj(c).totalQuantity > QtyEps
    THEN Await(c, "close_reduce", "reduce", Obj(c).totalQuantity)
    ELSE AfterClose(Delete(c))

handleBreakEvenMove(c) ==
  LET state == Obj(c)
      childScores == computeScores(Th(c).child)
      threshold == IF childScores.volume >= Pts(55) /\ childScores.flow >= Pts(55)
                   THEN 100 ELSE 130
  IN IF state.beMoved \/ state.slDistance <= 0 THEN Guard(c, "TRAIL")
     ELSE IF state.maxR < threshold THEN Guard(c, "TRAIL")
     ELSE Await(c, "be_replace", "replace", state.totalQuantity)

handleBreakEvenMoveResume(c) ==
  LET state == Obj(c)
      newStop == BreakEvenStop(state, Th(c).price)
  IN Guard([c EXCEPT !.objs[Th(c).obj].stopPrice = newStop,
                     !.objs[Th(c).obj].slDistance = Abs(newStop - state.entryPrice),
                     !.objs[Th(c).obj].beMoved = TRUE],
           "TRAIL")

handleTrailingStop(c) ==
  LET state == Obj(c)
      parentMetric == Th(c).parent
      childMetric == Th(c).child
      currentPrice == Th(c).price
      parentAtr == parentMetric.atrValue
      base == computeTrailAtr(state.cleanScore, state.gateScore)
      trailMultiple ==
        IF isDegrading(childMetric.efficiencyHistory)
             \/ isMomentumTurning(childMetric.momentumHistory)
          THEN Max2(1600, base - 400) ELSE base
      referenceHigh == Max2(Coalesce(parentMetric.highestClose, currentPrice),
                            Coalesce(state.highestPrice, currentPrice))
      referenceLow == Min2(Coalesce(parentMetric.lowestClose, currentPrice),
                           Coalesce(state.lowestPrice, currentPrice))
      newTrail == IF state.direction = "LONG"
                  THEN referenceHigh - (trailMultiple * parentAtr) \div 1000
                  ELSE referenceLow + (trailMultiple * parentAtr) \div 1000
      current == Coalesce(state.trailPrice, state.stopPrice)
      tightens == IF state.direction = "LONG"
                  THEN newTrail > current /\ newTrail < currentPrice
                  ELSE newTrail < current /\ newTrail > currentPrice
  IN IF parentAtr = Undef \/ parentAtr <= 0 THEN Guard(c, "PART")
     ELSE IF tightens
       THEN Await([c EXCEPT !.objs[Th(c).obj].trailPrice = newTrail,
                            !.tk[c.who].newStop = newTrail],
                  "trail_replace", "replace", state.totalQuantity)
     ELSE Guard(c, "PART")

handleTrailingStopResumeRebasing(c) ==
  LET newTrail == Th(c).newStop
  IN Guard([c EXCEPT !.objs[Th(c).obj].stopPrice = newTrail,
                     !.objs[Th(c).obj].slDistance = Abs(newTrail - Obj(c).entryPrice),
                     !.objs[Th(c).obj].initialSlDistance = Abs(newTrail - Obj(c).entryPrice),
                     !.tk[c.who].newStop = 0],
           "PART")

handleTrailingStopResume(c) ==
  LET newTrail == Th(c).newStop
  IN Guard([c EXCEPT !.objs[Th(c).obj].stopPrice = newTrail,
                     !.objs[Th(c).obj].slDistance = Abs(newTrail - Obj(c).entryPrice),
                     !.tk[c.who].newStop = 0],
           "PART")

executePartial(c, k) ==
  IF Th(c).pq <= 0 THEN Goto(c, IF k = "p1" THEN "P1DONE" ELSE "P2DONE")
  ELSE Await(c, IF k = "p1" THEN "p1_reduce" ELSE "p2_reduce", "reduce",
             Min2(Th(c).pq, Obj(c).totalQuantity))

executePartialResume(c) ==
  LET k == IF Th(c).pc \in {"p1_reduce", "p1_replace"} THEN "p1" ELSE "p2"
      reduced == Max2(Obj(c).totalQuantity - Th(c).pq, 0)
      d == [c EXCEPT !.objs[Th(c).obj].totalQuantity = reduced]
  IN IF Th(c).pc \in {"p1_reduce", "p2_reduce"}
       THEN IF reduced <= QtyEps THEN closePosition(d, k)
            ELSE Await(d, IF k = "p1" THEN "p1_replace" ELSE "p2_replace",
                       "replace", reduced)
       ELSE Goto(c, IF k = "p1" THEN "P1DONE" ELSE "P2DONE")

handlePartials(c) ==
  LET state == Obj(c)
      childScores == computeScores(Th(c).child)
      cleanTrend == state.cleanScore >= 600 /\ state.gateScore >= 700
      strongVolume == childScores.volume >= Pts(70) /\ childScores.flow >= Pts(70)
      rMultiple == calculateRMultiple(state, Th(c).price)
      partialQty == Min2((3 * state.baseQuantity) \div 10, state.totalQuantity)
      triggeredCleanTrend == cleanTrend /\ rMultiple >= 200
      triggeredGeneral == ~cleanTrend /\ ~strongVolume /\ rMultiple >= 150
      d == [c EXCEPT !.tk[c.who].r = rMultiple, !.tk[c.who].pq = partialQty,
                     !.tk[c.who].clean = cleanTrend,
                     !.tk[c.who].gen = triggeredGeneral]
  IN IF state.totalQuantity <= QtyEps THEN Guard(c, "ADDS")
     ELSE IF ~state.partialOneTaken /\ (triggeredCleanTrend \/ triggeredGeneral)
       THEN executePartial(d, "p1")
     ELSE Goto(d, "P2")

moveStopToBreakEven(c) ==
  LET state == Obj(c)
  IN IF state.beMoved \/ state.slDistance <= 0 \/ state.totalQuantity <= QtyEps
       THEN Goto(c, "P2")
       ELSE Await(c, "p1_be_replace", "replace", state.totalQuantity)

moveStopToBreakEvenResume(c) ==
  LET state == Obj(c)
      newStop == BreakEvenStop(state, Th(c).price)
  IN Goto([c EXCEPT !.objs[Th(c).obj].stopPrice = newStop,
                    !.objs[Th(c).obj].slDistance = Abs(newStop - state.entryPrice),
                    !.objs[Th(c).obj].beMoved = TRUE],
          "P2")

\* handlePartials after its first executePartial has returned
PartialOneDone(c) ==
  LET d == [c EXCEPT !.objs[Th(c).obj].partialOneTaken = TRUE]
  IN IF ~Has(c) THEN Goto(c, "APART")
     ELSE IF Th(c).gen THEN moveStopToBreakEven(d)
     ELSE Goto(d, "P2")

\* A second partial that does not ask whether the trend is clean
PartialTwoAnyTrend(c) ==
  IF ~Obj(c).partialTwoTaken /\ Th(c).r >= 200
    THEN executePartial(c, "p2")
    ELSE Goto(c, "APART")

PartialTwo(c) ==
  IF ~Obj(c).partialTwoTaken /\ ~Th(c).clean /\ Th(c).r >= 200
    THEN executePartial(c, "p2")
    ELSE Goto(c, "APART")

PartialTwoDone(c) ==
  Goto([c EXCEPT !.objs[Th(c).obj].partialTwoTaken = TRUE], "APART")

\* handlePartials has returned: its locals die
AfterPartials(c) ==
  Guard([c EXCEPT !.tk[c.who].r = 0, !.tk[c.who].pq = 0,
                  !.tk[c.who].clean = FALSE, !.tk[c.who].gen = FALSE],
        "ADDS")

handleAdds(c) ==
  LET state == Obj(c)
      childScores == computeScores(Th(c).child)
      rMultiple == calculateRMultiple(state, Th(c).price)
      d == [c EXCEPT !.tk[c.who].r = rMultiple]
  IN IF state.addCount >= 2 \/ ~state.beMoved THEN Guard(c, "TS")
     ELSE IF state.cleanScore < 650 \/ state.gateScore < 700
               \/ childScores.efficiency < Pts(55) THEN Guard(c, "TS")
     ELSE IF state.addCount = 0 /\ rMultiple >= 100 /\ (5 * state.baseQuantity) \div 10 > 0
       THEN Await(d, "a1_increase", "increase", (5 * state.baseQuantity) \div 10)
     ELSE Goto(d, "ADDS2")

AddsTwo(c) ==
  LET state == Obj(c)
  IN IF state.addCount = 1 /\ Th(c).r >= 200 /\ (33 * state.baseQuantity) \div 100 > 0
       THEN Await(c, "a2_increase", "increase", (33 * state.baseQuantity) \div 100)
       ELSE Guard([c EXCEPT !.tk[c.who].r = 0], "TS")

executeAddResume(c) ==
  LET state == Obj(c)
      quantity == IF Th(c).pc = "a1_increase" THEN (5 * state.baseQuantity) \div 10
                  ELSE (33 * state.baseQuantity) \div 100
      d == [c EXCEPT !.objs[Th(c).obj].totalQuantity = @ + quantity,
                     !.objs[Th(c).obj].addCount = @ + 1]
  IN CASE Th(c).pc = "a1_increase" ->
            Await(d, "a1_replace", "replace", state.totalQuantity + quantity)
       [] Th(c).pc = "a2_increase" ->
            Await(d, "a2_replace", "replace", state.totalQuantity + quantity)
       [] Th(c).pc = "a1_replace" -> Goto(c, "ADDS2")
       [] OTHER -> Guard([c EXCEPT !.tk[c.who].r = 0], "TS")

CeilDiv(a, b) == (a + b - 1) \div b

\* A threshold of one parent candle instead of three
TimeStopThresholdOneParent(state) ==
  LET childMinutes == IF state.childMinutes # 0 THEN state.childMinutes ELSE 10
      parentMinutes == IF state.parentMinutes # 0 THEN state.parentMinutes ELSE 30
  IN Max2(1, CeilDiv(parentMinutes, childMinutes))

TimeStopThreshold(state) ==
  LET childMinutes == IF state.childMinutes # 0 THEN state.childMinutes ELSE 10
      parentMinutes == IF state.parentMinutes # 0 THEN state.parentMinutes ELSE 30
  IN Max2(1, CeilDiv(3 * parentMinutes, childMinutes))

handleTimeStop(c) ==
  LET state == Obj(c)
      childMinutes == IF state.childMinutes # 0 THEN state.childMinutes ELSE 10
      thresholdCandles == TimeStopThreshold(state)
      elapsedCandles == (c.now - state.openedAt) \div childMinutes
  IN IF state.timeStopStage = 0 /\ elapsedCandles >= thresholdCandles
       THEN IF state.maxR < 50
              THEN Await(c, "ts_replace", "replace", state.totalQuantity)
              ELSE Guard([c EXCEPT !.objs[Th(c).obj].timeStopStage = 1,
                                   !.objs[Th(c).obj].timeStopTimestamp = c.now],
                         "SB")
     ELSE IF /\ state.timeStopStage = 1
             /\ state.timeStopTimestamp # Undef /\ state.timeStopTimestamp # 0
             /\ c.now - state.timeStopTimestamp >= thresholdCandles * childMinutes
             /\ state.maxR < 50
       THEN closePosition(c, "ts")
     ELSE Guard(c, "SB")

\* The stop tightened by the whole initial distance instead of half of it
handleTimeStopResumeWholeDistance(c) ==
  LET state == Obj(c)
      targetStop == state.entryPrice - DirSign(state.direction) * state.initialSlDistance
  IN Guard([c EXCEPT !.objs[Th(c).obj].stopPrice = targetStop,
                     !.objs[Th(c).obj].slDistance = Abs(targetStop - state.entryPrice),
                     !.objs[Th(c).obj].timeStopStage = 1,
                     !.objs[Th(c).obj].timeStopTimestamp = c.now],
           "SB")

handleTimeStopResume(c) ==
  LET state == Obj(c)
      targetStop == state.entryPrice
                      - (DirSign(state.direction) * 5 * state.initialSlDistance) \div 10
  IN Guard([c EXCEPT !.objs[Th(c).obj].stopPrice = targetStop,
                     !.objs[Th(c).obj].slDistance = Abs(targetStop - state.entryPrice),
                     !.objs[Th(c).obj].timeStopStage = 1,
                     !.objs[Th(c).obj].timeStopTimestamp = c.now],
           "SB")

\* The breach judged on the last close alone
handleStructureBreakLastClose(c) ==
  LET state == Obj(c)
      childMetric == Th(c).child
      trailBase == Coalesce(state.trailPrice, state.stopPrice)
      atrChild == Coalesce(childMetric.atrValue, Coalesce(state.childAtr, 0))
      closes == childMetric.closeHistory
      threshold == trailBase + (DirSign(state.direction) * 3 * atrChild) \div 10
      breach == IF state.direction = "LONG" THEN closes[Len(closes)] <= threshold
                ELSE closes[Len(closes)] >= threshold
      counter == IF breach THEN state.structureBreakCounter + 1 ELSE 0
      d == [c EXCEPT !.objs[Th(c).obj].structureBreakCounter = counter]
  IN IF trailBase = 0 \/ atrChild <= 0 THEN Goto(c, "ASB")
     ELSE IF Len(closes) < 2 THEN Goto(c, "ASB")
     ELSE IF counter >= 2 THEN closePosition(d, "sb")
     ELSE Goto(d, "ASB")

handleStructureBreak(c) ==
  LET state == Obj(c)
      childMetric == Th(c).child
      trailBase == Coalesce(state.trailPrice, state.stopPrice)
      atrChild == Coalesce(childMetric.atrValue, Coalesce(state.childAtr, 0))
      closes == childMetric.closeHistory
      threshold == trailBase + (DirSign(state.direction) * 3 * atrChild) \div 10
      recent == SubSeq(closes, Len(closes) - 1, Len(closes))
      breach == \A i \in 1..2 :
                  IF state.direction = "LONG" THEN recent[i] <= threshold
                  ELSE recent[i] >= threshold
      counter == IF breach THEN state.structureBreakCounter + 1 ELSE 0
      d == [c EXCEPT !.objs[Th(c).obj].structureBreakCounter = counter]
  IN IF trailBase = 0 \/ atrChild <= 0 THEN Goto(c, "ASB")
     ELSE IF Len(closes) < 2 THEN Goto(c, "ASB")
     ELSE IF counter >= 2 THEN closePosition(d, "sb")
     ELSE Goto(d, "ASB")

\* The end of one symbol's pass: updateManagedPositions (the cycle, who = 0)
\* has no has-check after handleStructureBreak, handleLivePriceTick has one.
AfterStructureBreak(c) ==
  LET exhausted == [Unsubscribe(c, Th(c).obj) EXCEPT !.mapRef = 0]
  IN IF c.who # 0 /\ ~Has(c) THEN Goto(c, "END")
     ELSE IF Obj(c).totalQuantity <= QtyEps THEN Goto(exhausted, "END")
     ELSE Goto(c, "END")

-----------------------------------------------------------------------------
(* handleLivePriceTick *)

\* The invocation up to its first handler: the guard, the single-slot buffer,
\* and the price bookkeeping of the try block.
handleLivePriceTick(c, tick) ==
  LET id == c.mapRef
      state == c.objs[id]
      started ==
        [ state EXCEPT
            !.processingLiveUpdate = TRUE,
            !.pendingLiveUpdate = Undef,
            !.highestPrice = IF state.direction = "LONG"
                             THEN Max2(Coalesce(state.highestPrice, state.entryPrice), tick)
                             ELSE @,
            !.lowestPrice = IF state.direction = "SHORT"
                            THEN Min2(Coalesce(state.lowestPrice, state.entryPrice), tick)
                            ELSE @,
            !.maxR = Max2(state.maxR, calculateRMultiple(state, tick)) ]
      idle == [ state EXCEPT !.processingLiveUpdate = TRUE, !.pendingLiveUpdate = Undef ]
  IN IF id = 0 THEN c
     ELSE IF state.totalQuantity <= QtyEps THEN Unsubscribe(c, id)
     ELSE IF state.processingLiveUpdate
       THEN [c EXCEPT !.objs[id].pendingLiveUpdate = tick]
     ELSE IF ~IsMetric(state.parentMetricSnapshot) \/ ~IsMetric(state.childMetricSnapshot)
       THEN [c EXCEPT !.objs[id] = idle, !.who = id,
                      !.tk[id] = [IdleTh EXCEPT !.pc = "END", !.obj = id]]
     ELSE [c EXCEPT
             !.objs[id] = started,
             !.who = id,
             !.tk[id] = [IdleTh EXCEPT
                           !.pc = "BE", !.obj = id, !.price = tick,
                           !.parent = withLivePrice(state.parentMetricSnapshot, tick),
                           !.child = withLivePrice(state.childMetricSnapshot, tick)]]

\* The finally block: release the flag and run the buffered tick, if any.
handleLivePriceTickFinally(c) ==
  LET id == Th(c).obj
      pending == c.objs[id].pendingLiveUpdate
      d == [c EXCEPT !.objs[id].processingLiveUpdate = FALSE,
                     !.objs[id].pendingLiveUpdate = Undef,
                     !.tk[id] = IdleTh]
  IN IF pending # Undef THEN handleLivePriceTick(d, pending) ELSE d

-----------------------------------------------------------------------------
(* The cycle: StrategyService.process *)

\* TradingService.fetchOpenPositions for the symbol, from the amounts the
\* exchange reports for its two legs: legs below 1e-6 are skipped
SummaryOf(long, short) ==
  LET hasLong == long >= QtyEps
      hasShort == short >= QtyEps
  IN IF ~hasLong /\ ~hasShort THEN NoSummary
     ELSE [ held |-> TRUE,
            long |-> IF hasLong THEN long ELSE Undef,
            short |-> IF hasShort THEN 0 - short ELSE Undef,
            net |-> (IF hasLong THEN long ELSE 0) - (IF hasShort THEN short ELSE 0) ]

LegOf(summary, leg) ==
  IF summary.held /\ summary[leg] # Undef THEN Abs(summary[leg]) ELSE 0

\* TradingService.getRemainingSlots and canOpenPosition over the executor's
\* position cache: its size, and whether it has the symbol
getRemainingSlots(size) == Max2(0, MAX_POSITIONS - size)

canOpenPosition(has, size) == ~has /\ size < MAX_POSITIONS

\* The size of the cache when only the one symbol is traded
CacheSize(c) == IF c.positions.held THEN 1 ELSE 0

syncPositionStates(c) ==
  LET id == c.mapRef
      state == c.objs[id]
      summary == c.positions
      quantity == extractQuantityForSide(summary, state.direction)
      dropped == Delete(Unsubscribe(c, id))
  IN IF id = 0 THEN c
     ELSE IF ~summary.held THEN dropped
     ELSE IF quantity <= QtyEps THEN dropped
     ELSE ensurePriceWatcher([c EXCEPT !.objs[id].totalQuantity = quantity], id)

\* One symbol of updateManagedPositions, up to the price it works with
updateManagedPositions(c) ==
  LET id == c.mapRef
      state == c.objs[id]
      parentMetric == MetricAt(c.cyc.metrics, state.parentTimeframe)
      childMetric == MetricAt(c.cyc.metrics, state.childTimeframe)
      d == [c EXCEPT !.tk[0].obj = id, !.tk[0].parent = parentMetric,
                     !.tk[0].child = childMetric]
  IN IF id = 0 THEN Goto(c, "END")
     ELSE IF IsMetric(childMetric) /\ childMetric.latestClose # 0
       THEN Goto([d EXCEPT !.tk[0].price = childMetric.latestClose], "UPD")
     ELSE Goto(d, "mark")

\* await getMarkPrice(symbol) has settled: c.mark is the price, or Undef when
\* it threw, and the exception leaves process()
getMarkPriceResume(c) ==
  IF c.mark = Undef THEN Goto(c, "DONE")
  ELSE Goto([c EXCEPT !.tk[0].price = c.mark], "UPD")

updateManagedPositionsBody(c) ==
  LET id == Th(c).obj
      state == Obj(c)
      parentMetric == Th(c).parent
      childMetric == Th(c).child
      currentPrice == Th(c).price
      refreshed ==
        [ state EXCEPT
            !.childAtr = childMetric.atrValue,
            !.cleanScore = cleanOf(parentMetric),
            !.gateScore = Coalesce(childMetric.smallMoveGate, state.gateScore),
            !.childMinutes = Coalesce(timeframeMinutes(state.childTimeframe), state.childMinutes),
            !.parentMinutes = Coalesce(timeframeMinutes(state.parentTimeframe), state.parentMinutes),
            !.parentMetricSnapshot = parentMetric,
            !.childMetricSnapshot = childMetric ]
      watched == ensurePriceWatcher([c EXCEPT !.objs[id] = refreshed], id)
      st == watched.objs[id]
      tracked ==
        [ st EXCEPT
            !.highestPrice =
               IF st.direction = "LONG"
               THEN Max2(Max2(Coalesce(st.highestPrice, st.entryPrice),
                              Coalesce(parentMetric.highestClose, currentPrice)),
                         currentPrice)
               ELSE @,
            !.lowestPrice =
               IF st.direction = "SHORT"
               THEN Min2(Min2(Coalesce(st.lowestPrice, st.entryPrice),
                              Coalesce(parentMetric.lowestClose, currentPrice)),
                         currentPrice)
               ELSE @,
            !.maxR = Max2(st.maxR, calculateRMultiple(st, currentPrice)) ]
  IN IF ~IsMetric(parentMetric) \/ ~IsMetric(childMetric) THEN Goto(c, "END")
     ELSE Goto([watched EXCEPT !.objs[id] = tracked], "BE")

\* The symbol's pass is over: process moves on
PassEnd(c) ==
  LET d == [c EXCEPT !.tk[0] = [IdleTh EXCEPT !.pc = "END"]]
  IN IF c.cyc.phase = 1 THEN Goto(d, "CAND") ELSE Goto(d, "DONE")

Referenced(c, id) ==
  id = c.mapRef \/ id \in c.subs \/ \E t \in ThreadIds : c.tk[t].obj = id

FreeIds(c) == { id \in ObjIds : ~Referenced(c, id) }

\* What evaluateCandidate derives from the candidate's metrics
EntryPlan(metrics, penalty) ==
  LET framework == selectFramework(metrics)
      parentMetric == MetricAt(metrics, framework.parentTimeframe)
      childMetric == MetricAt(metrics, framework.childTimeframe)
      usable == framework.parentTimeframe # "none" /\ IsMetric(parentMetric)
                  /\ IsMetric(childMetric)
      direction == IF usable THEN determineDirection(parentMetric) ELSE "none"
      parentScores == computeScores(parentMetric)
      childScores == computeScores(childMetric)
      cleanParent == cleanOf(parentMetric)
      gateChild == childMetric.smallMoveGate
      kSl == computeKSl(cleanParent, gateChild)
      atrChild == childMetric.atrValue
  IN [ framework |-> framework, parentMetric |-> parentMetric, childMetric |-> childMetric,
       direction |-> direction,
       gatesPass |-> /\ usable
                     /\ direction # "none"
                     /\ parentScores.efficiency >= Pts(45)
                     /\ parentScores.align >= Pts(50)
                     /\ penalty * 100 < Pts(40)
                     /\ triggersSatisfied(direction, childMetric, childScores)
                     /\ atrChild > 0,
       cleanParent |-> IF usable THEN cleanParent ELSE 0,
       gateChild |-> IF usable THEN gateChild ELSE 0,
       kSl |-> IF usable THEN kSl ELSE 0,
       slDistance |-> IF usable THEN (kSl * atrChild) \div 1000 ELSE 0 ]

\* The candidate loop of process and evaluateCandidate up to its market order
evaluateCandidate(c) ==
  LET plan == EntryPlan(c.cyc.metrics, c.cyc.penalty)
      skip == Goto([c EXCEPT !.cyc.phase = 2], "PASS")
  IN IF ~c.cyc.candidate \/ getRemainingSlots(CacheSize(c)) <= 0 THEN skip
     ELSE IF ~plan.gatesPass THEN skip
     ELSE IF Has(c) \/ ~canOpenPosition(c.positions.held, CacheSize(c)) THEN skip
     ELSE IF FreeIds(c) = {} THEN skip
     ELSE Goto(c, "order")

\* createMarketOrder has settled.  c.entry is what happened: a lookup before
\* the order threw, the order was rejected, the order was filled but the
\* refresh after it failed, the response carried no quantity, or all went well.
\* The refresh reports the leg the order opened.
createMarketOrderResume(c) ==
  LET plan == EntryPlan(c.cyc.metrics, c.cyc.penalty)
      long == LegOf(c.positions, "long") + (IF plan.direction = "LONG" THEN EntryQty ELSE 0)
      short == LegOf(c.positions, "short") + (IF plan.direction = "SHORT" THEN EntryQty ELSE 0)
      refreshed == [c EXCEPT !.positions = SummaryOf(long, short)]
  IN CASE c.entry \in {"throw", "null", "norefresh"} ->
            Goto([c EXCEPT !.cyc.phase = 2], "PASS")
       [] c.entry = "noqty" -> Goto([refreshed EXCEPT !.cyc.phase = 2], "PASS")
       [] OTHER -> Goto(refreshed, "stop")

\* placeStopLoss has settled: the state is created and watched
placeStopLossResume(c) ==
  LET plan == EntryPlan(c.cyc.metrics, c.cyc.penalty)
      id == CHOOSE i \in FreeIds(c) : \A j \in FreeIds(c) : i <= j
      avgPrice == BasePrice
      stopPrice == Max2(avgPrice - DirSign(plan.direction) * plan.slDistance, 1)
      state == NewState(plan, avgPrice, EntryQty, stopPrice, c.now)
      d == [c EXCEPT !.objs[id] = state, !.mapRef = id, !.cyc.phase = 2]
  IN Goto(ensurePriceWatcher(d, id), "PASS")

\* process() returns, or an exception leaves it: execute() clears isRunning
CycleDone(c) == [c EXCEPT !.tk[0] = IdleTh, !.cyc = IdleCycle]

-----------------------------------------------------------------------------
(* Run to completion: an invocation runs from where it was resumed to its  *)
(* next await; nothing else runs in between.                                *)

Resume(c) ==
  LET pc == Th(c).pc
      d == c
  IN CASE pc = "be_replace" -> handleBreakEvenMoveResume(d)
       [] pc = "trail_replace" -> handleTrailingStopResume(d)
       [] pc \in {"p1_reduce", "p1_replace", "p2_reduce", "p2_replace"} ->
            executePartialResume(d)
       [] pc = "p1_be_replace" -> moveStopToBreakEvenResume(d)
       [] pc \in {"a1_increase", "a1_replace", "a2_increase", "a2_replace"} ->
            executeAddResume(d)
       [] pc = "ts_replace" -> handleTimeStopResume(d)
       [] pc \in {"close_cancel", "close_reduce"} -> closePositionResume(d)
       [] pc = "mark" -> getMarkPriceResume(d)
       [] pc = "order" -> createMarketOrderResume(d)
       [] pc = "stop" -> placeStopLossResume(d)
       [] OTHER -> c

Step(c) ==
  LET pc == Th(c).pc
  IN CASE pc = "BE" -> handleBreakEvenMove(c)
       [] pc = "TRAIL" -> handleTrailingStop(c)
       [] pc = "PART" -> handlePartials(c)
       [] pc = "P1DONE" -> PartialOneDone(c)
       [] pc = "P2" -> PartialTwo(c)
       [] pc = "P2DONE" -> PartialTwoDone(c)
       [] pc = "APART" -> AfterPartials(c)
       [] pc = "ADDS" -> handleAdds(c)
       [] pc = "ADDS2" -> AddsTwo(c)
       [] pc = "TS" -> handleTimeStop(c)
       [] pc = "ATS" -> Guard(c, "SB")
       [] pc = "SB" -> handleStructureBreak(c)
       [] pc = "ASB" -> AfterStructureBreak(c)
       [] pc = "END" -> IF c.who = 0 THEN PassEnd(c) ELSE handleLivePriceTickFinally(c)
       [] pc = "PASS" -> updateManagedPositions(c)
       [] pc = "UPD" -> updateManagedPositionsBody(c)
       [] pc = "CAND" -> evaluateCandidate(c)
       [] pc = "DONE" -> CycleDone(c)
       [] OTHER -> c

RECURSIVE Run(_)
Run(c) == IF Th(c).pc \in Suspended THEN c ELSE Run(Step(c))

\* A state object nothing refers to any more is garbage
Collect(c) == [ id \in ObjIds |-> IF Referenced(c, id) THEN c.objs[id] ELSE NoObj ]

Ctx(who, mark, entry) ==
  [ now |-> now, positions |-> positions, objs |-> objs,
    mapRef |-> mapRef, subs |-> subs, cyc |-> cyc, tk |-> tk,
    who |-> who, mark |-> mark, entry |-> entry ]

Commit(c) ==
  /\ now' = c.now
  /\ positions' = c.positions
  /\ objs' = Collect(c)
  /\ mapRef' = c.mapRef
  /\ subs' = c.subs
  /\ cyc' = c.cyc
  /\ tk' = c.tk

-----------------------------------------------------------------------------
(* The strategy's life: cycles, ticks, the exchange and the clock *)

EntryOutcomes == { "throw", "null", "norefresh", "noqty", "filled" }
MarketSigns == { 1, 0 - 1 }

\* The market the environment shows while a position is managed follows the
\* side of that position (favourable offsets are positive)
MarketSign == IF mapRef # 0 THEN { DirSign(objs[mapRef].direction) } ELSE MarketSigns

\* What the exchange can report for each of the symbol's two legs
LegAmounts == { 0, EntryQty }

\* setInterval fires one interval later: execute() starts a cycle unless
\* isRunning, in which case the firing is dropped
TimerFires ==
  /\ now + TimeStep <= MaxNow
  /\ now' = now + TimeStep
  /\ tk' = IF tk[0].pc = "idle" THEN [tk EXCEPT ![0].pc = "refresh"] ELSE tk
  /\ UNCHANGED <<positions, objs, mapRef, subs, cyc, ticks, slot, thr, main, pass, ts, laterVars>>

\* await tradingService.refreshState(): the cache takes what the exchange
\* reports now (orders, stops that triggered and the account's owner all
\* move it)
RefreshDone ==
  /\ tk[0].pc = "refresh"
  /\ \E long \in LegAmounts, short \in LegAmounts :
       /\ positions' = SummaryOf(long, short)
       /\ tk' = [tk EXCEPT ![0].pc = "movers"]
  /\ UNCHANGED <<now, objs, mapRef, subs, cyc, ticks, slot, thr, main, pass, ts, laterVars>>

\* refreshState() throws and execute() gives the cycle up
RefreshFails ==
  /\ tk[0].pc = "refresh"
  /\ tk' = [tk EXCEPT ![0] = IdleTh]
  /\ UNCHANGED <<now, positions, objs, mapRef, subs, cyc, ticks, slot, thr, main, pass, ts, laterVars>>

\* await binanceService.getTopMovers() delivers this cycle's metrics;
\* process() starts: syncPositionStates, then await flattenResidualPositions
MoversDone ==
  /\ tk[0].pc = "movers"
  /\ \E listed \in BOOLEAN, profile \in Profiles, sgn \in MarketSign :
       \E price \in Prices(sgn) :
         LET metrics == IF listed THEN MetricsMap(profile, sgn, price) ELSE NoMetricsMap
             c == [Ctx(0, Undef, "null") EXCEPT
                     !.cyc = [phase |-> 1, metrics |-> metrics, candidate |-> listed,
                              penalty |-> 100]]
         IN Commit(Goto(syncPositionStates(c), "flatten"))
  /\ UNCHANGED <<ticks, slot, thr, main, pass, ts, laterVars>>

\* await flattenResidualPositions() returns (its reduce-only orders touch the
\* exchange only); the first updateManagedPositions starts
FlattenDone ==
  /\ tk[0].pc = "flatten"
  /\ Commit(Run(Goto(Ctx(0, Undef, "null"), "PASS")))
  /\ UNCHANGED <<ticks, slot, thr, main, pass, ts, laterVars>>

\* await tradingService.getMarkPrice(symbol) settles
MarkDone ==
  /\ tk[0].pc = "mark"
  /\ \E sgn \in MarketSign :
       \E mark \in Prices(sgn) \cup {Undef} :
         Commit(Run(Resume(Ctx(0, mark, "null"))))
  /\ UNCHANGED <<ticks, slot, thr, main, pass, ts, laterVars>>

\* await tradingService.createMarketOrder(...) settles
OrderDone ==
  /\ tk[0].pc = "order"
  /\ \E entry \in EntryOutcomes : Commit(Run(Resume(Ctx(0, Undef, entry))))
  /\ UNCHANGED <<ticks, slot, thr, main, pass, ts, laterVars>>

\* await tradingService.placeStopLoss(...) settles, with a response or null
StopDone ==
  /\ tk[0].pc = "stop"
  /\ Commit(Run(Resume(Ctx(0, Undef, "null"))))
  /\ UNCHANGED <<ticks, slot, thr, main, pass, ts, laterVars>>

\* An order call awaited by the cycle's pass (who = 0) or by a tick handler
\* returns its response and the invocation resumes
OrderReturns(who) ==
  /\ tk[who].pc \in OrderAwaits
  /\ Commit(Run(Resume(Ctx(who, Undef, "null"))))
  /\ UNCHANGED <<ticks, slot, thr, main, pass, ts, laterVars>>

\* The order failed: the call logs the error and returns null
OrderFails(who) ==
  /\ tk[who].pc \in OrderAwaits
  /\ Commit(Run(Resume(Ctx(who, Undef, "null"))))
  /\ UNCHANGED <<ticks, slot, thr, main, pass, ts, laterVars>>

\* The price stream calls the subscribed callback
TickArrives ==
  /\ subs # {}
  /\ ticks < MaxTicks
  /\ ticks' = ticks + 1
  /\ \E sgn \in MarketSign :
       \E price \in Prices(sgn) :
         Commit(Run(handleLivePriceTick(Ctx(0, Undef, "null"), price)))
  /\ UNCHANGED <<slot, thr, main, pass, ts, laterVars>>

-----------------------------------------------------------------------------
(* The position slots: the candidate loop of process over all symbols.     *)
(* slot.cache is TradingService.positions (its key set), slot.held the     *)
(* symbols the exchange holds a position in, slot.managed the key set of   *)
(* managedPositions, slot.queue the candidates of aggregatedTop the loop   *)
(* has not yet visited.                                                     *)

Symbols == 1..MaxSymbols

RECURSIVE Ranked(_)
Ranked(S) ==
  IF S = {} THEN <<>>
  ELSE LET first == CHOOSE x \in S : \A y \in S : x <= y
       IN <<first>> \o Ranked(S \ {first})

SlotsIdle ==
  [ cache |-> {}, held |-> {}, managed |-> {}, queue |-> <<>>, pc |-> "idle" ]

\* execute() up to the candidate loop: refreshState replaces the cache by
\* what the exchange holds, syncPositionStates drops the managed symbols
\* without a summary, and the loop starts over aggregatedTop
SlotsCycleStarts ==
  /\ slot.pc = "idle"
  /\ slot' = [slot EXCEPT !.cache = slot.held,
                          !.managed = slot.managed \cap slot.held,
                          !.queue = Ranked(Symbols),
                          !.pc = "loop"]
  /\ UNCHANGED <<strategyVars, thr, main, pass, ts, laterVars>>

\* One turn of the loop: break when no slot remains; otherwise
\* evaluateCandidate, whose metric gates the environment decides, up to its
\* createMarketOrder call
SlotsCandidate ==
  /\ slot.pc = "loop"
  /\ IF slot.queue = <<>> \/ getRemainingSlots(Cardinality(slot.cache)) <= 0
       THEN slot' = [slot EXCEPT !.queue = <<>>, !.pc = "idle"]
       ELSE LET symbol == Head(slot.queue)
            IN \E gatesPass \in BOOLEAN :
                 IF /\ gatesPass
                    /\ symbol \notin slot.managed
                    /\ canOpenPosition(symbol \in slot.cache, Cardinality(slot.cache))
                 THEN slot' = [slot EXCEPT !.pc = "order"]
                 ELSE slot' = [slot EXCEPT !.queue = Tail(@)]
  /\ UNCHANGED <<strategyVars, thr, main, pass, ts, laterVars>>

SlotOutcomes == { "null", "norefresh", "noqty", "filled" }

\* createMarketOrder settles.  "null": nothing was sent or the order was
\* rejected.  "norefresh": the order was filled and the refreshState after
\* it threw: the catch returns null and the cache keeps its old content.
\* "noqty": the order was accepted and the cache refreshed, and the response
\* has no quantity or price that evaluateCandidate can use: it returns
\* before placeStopLoss.  "filled": the order was filled, the cache was
\* refreshed, and evaluateCandidate places the stop and records the managed
\* state.
SlotsOrderSettles ==
  /\ slot.pc = "order"
  /\ \E outcome \in SlotOutcomes :
       LET symbol == Head(slot.queue)
           held == slot.held \cup {symbol}
           next == [slot EXCEPT !.queue = Tail(@), !.pc = "loop"]
       IN CASE outcome = "null" -> slot' = next
            [] outcome = "norefresh" -> slot' = [next EXCEPT !.held = held]
            [] outcome = "noqty" -> slot' = [next EXCEPT !.held = held, !.cache = held]
            [] OTHER -> slot' = [next EXCEPT !.held = held, !.cache = held,
                                             !.managed = @ \cup {symbol}]
  /\ UNCHANGED <<strategyVars, thr, main, pass, ts, laterVars>>

\* The exchange closes a position (its stop order triggers)
SlotsPositionCloses ==
  /\ \E symbol \in slot.held : slot' = [slot EXCEPT !.held = @ \ {symbol}]
  /\ UNCHANGED <<strategyVars, thr, main, pass, ts, laterVars>>

-----------------------------------------------------------------------------
(* The rate limiter of BinanceService: requestWithRetry and throttle.      *)
(* thr.chain holds the callers whose link of throttleQueue has not         *)
(* resolved; the head link is the one sleeping until thr.wake.  Callbacks  *)
(* run to completion without the clock moving.                             *)

Callers == 1..MaxCallers

\* What a request can fail with: an AxiosError with the response's status (or
\* none: network error, timeout), or another Error
NoError == [ axios |-> FALSE, status |-> 0 ]
Statuses == { 304, 400, 429, 500 }
Errors ==
  { [ axios |-> TRUE, status |-> st ] : st \in Statuses \cup {Undef} }
    \cup { [ axios |-> FALSE, status |-> Undef ] }

\* The errors the callers of the limiter model meet
ThrottleErrors == { [ axios |-> TRUE, status |-> Undef ], [ axios |-> TRUE, status |-> 400 ] }

shouldRetry(error) ==
  IF error.axios
    THEN ~(error.status # Undef /\ error.status # 0 /\ error.status < 500
             /\ error.status # 429)
    ELSE TRUE

\* A call of requestWithRetry: its locals attempt, delay and lastError, the
\* time its backoff sleep ends, the time it has slept in backoff and the
\* attempts that failed so far, and, once it is over, the error it threw
IdleCaller ==
  [ pc |-> "idle", attempt |-> 0, delay |-> 0, wake |-> Undef,
    waited |-> 0, failures |-> 0, lastError |-> NoError, thrown |-> NoError ]

ThrottleIdle ==
  [ clock |-> StartClock, lastRequestTimestamp |-> 0, chain |-> <<>>, wake |-> Undef,
    caller |-> [ i \in Callers |-> IdleCaller ],
    lastStart |-> Undef, gap |-> Undef, direct |-> FALSE ]

\* A link that sleeps nowhere: every request starts as soon as it is asked for
throttleSleepNever(clock, lastRequestTimestamp) == 0

\* How long a link of the chain sleeps before it stamps lastRequestTimestamp
throttleSleep(clock, lastRequestTimestamp) ==
  LET elapsed == clock - lastRequestTimestamp
  IN IF elapsed < REQUEST_INTERVAL_MS THEN REQUEST_INTERVAL_MS - elapsed ELSE 0

\* await this.throttle() has resolved for caller i: requestFactory() starts
\* the outbound request
requestFactory(t, i) ==
  [ t EXCEPT !.caller[i].pc = "request",
             !.lastStart = t.clock,
             !.gap = IF t.lastStart = Undef THEN Undef ELSE t.clock - t.lastStart ]

\* The chain runs its head link: it sleeps, or stamps the time and resolves,
\* which resumes its caller and starts the next link
RECURSIVE throttleChain(_)
throttleChain(t) ==
  IF t.chain = <<>> THEN t
  ELSE LET i == Head(t.chain)
           duration == throttleSleep(t.clock, t.lastRequestTimestamp)
       IN IF duration > 0 THEN [t EXCEPT !.wake = t.clock + duration]
          ELSE throttleChain(requestFactory(
                 [t EXCEPT !.lastRequestTimestamp = t.clock, !.chain = Tail(@)], i))

\* A link appended to a chain that nothing runs
throttleDetached(t, i) ==
  [t EXCEPT !.chain = Append(@, i), !.caller[i].pc = "throttle"]

\* this.throttle(): a link is appended to throttleQueue
throttle(t, i) ==
  LET appended == [t EXCEPT !.chain = Append(@, i), !.caller[i].pc = "throttle"]
  IN IF t.chain = <<>> THEN throttleChain(appended) ELSE appended

\* A caller enters requestWithRetry: first attempt
ThrottleCall(i) ==
  /\ thr.caller[i].pc = "idle"
  /\ thr' = throttle([thr EXCEPT !.caller[i] =
                        [IdleCaller EXCEPT !.attempt = 1,
                                           !.delay = RETRY_BACKOFF_BASE_MS]], i)
  /\ UNCHANGED <<strategyVars, slot, main, pass, ts, laterVars>>

\* The timer of the head link's sleep fires
ThrottleWakes ==
  /\ thr.chain # <<>>
  /\ thr.wake # Undef
  /\ thr.clock >= thr.wake
  /\ thr' = throttleChain(requestFactory(
              [thr EXCEPT !.lastRequestTimestamp = thr.clock, !.chain = Tail(@),
                          !.wake = Undef], Head(thr.chain)))
  /\ UNCHANGED <<strategyVars, slot, main, pass, ts, laterVars>>

\* The request returns its response: requestWithRetry returns
RequestReturns(i) ==
  /\ thr.caller[i].pc = "request"
  /\ thr' = [thr EXCEPT !.caller[i] = IdleCaller]
  /\ UNCHANGED <<strategyVars, slot, main, pass, ts, laterVars>>

\* The request throws `error`: rethrown when shouldRetry says no, thrown as
\* lastError when the attempts are used up, otherwise the caller sleeps its
\* backoff delay
RequestThrows(i, error) ==
  /\ thr.caller[i].pc = "request"
  /\ IF ~shouldRetry(error) \/ thr.caller[i].attempt >= MAX_RETRY_ATTEMPTS
       THEN thr' = [thr EXCEPT !.caller[i] = [IdleCaller EXCEPT !.thrown = error]]
       ELSE thr' = [thr EXCEPT !.caller[i].pc = "backoff",
                               !.caller[i].lastError = error,
                               !.caller[i].failures = @ + 1,
                               !.caller[i].wake = thr.clock + thr.caller[i].delay]
  /\ UNCHANGED <<strategyVars, slot, main, pass, ts, laterVars>>

\* The delay of the backoff sleep after this one, kept as it is
nextDelaySame(delay) == delay

\* The delay of the backoff sleep after this one, doubled without a limit
nextDelayUncapped(delay) == delay * 2

\* The delay of the backoff sleep after this one
nextDelay(delay) == Min2(delay * 2, MAX_RETRY_BACKOFF_MS)

\* The backoff sleep is over: the delay doubles and the next attempt starts
BackoffEnds(i) ==
  /\ thr.caller[i].pc = "backoff"
  /\ thr.clock >= thr.caller[i].wake
  /\ thr' = throttle([thr EXCEPT
                        !.caller[i].delay = nextDelay(thr.caller[i].delay),
                        !.caller[i].attempt = @ + 1,
                        !.caller[i].waited =
                           @ + thr.clock - (thr.caller[i].wake - thr.caller[i].delay),
                        !.caller[i].wake = Undef], i)
  /\ UNCHANGED <<strategyVars, slot, main, pass, ts, laterVars>>

\* The executor (TradingService) sends a request: signedRequest through its
\* own client, fetchMarkPrice and getSymbolFilters through its publicClient.
\* thr.direct records that such a request went out at the current instant.
signedRequest(t) == [t EXCEPT !.direct = TRUE]

ExecutorRequest ==
  /\ thr' = signedRequest(thr)
  /\ UNCHANGED <<strategyVars, slot, main, pass, ts, laterVars>>

\* Time passes while one call is followed through all its attempts
RetryClockAdvances ==
  /\ thr.clock + RetryStep <= RetryHorizon
  /\ thr' = [thr EXCEPT !.clock = @ + RetryStep, !.direct = FALSE]
  /\ UNCHANGED <<strategyVars, slot, main, pass, ts, laterVars>>

\* Time passes
ClockAdvances ==
  /\ thr.clock + ClockStep <= MaxClock
  /\ thr' = [thr EXCEPT !.clock = @ + ClockStep, !.direct = FALSE]
  /\ UNCHANGED <<strategyVars, slot, main, pass, ts, laterVars>>

\* A time of the limiter after `step` has passed, told from the present: the
\* code only ever takes differences with Date.now(), so the present stays at
\* thr.clock and the times move back; a time at or before `floor` is as good
\* as `floor` to every comparison the code makes with it
Elapse(time, step, floor) ==
  IF time = Undef THEN Undef ELSE Max2(time - step, floor)

\* Time passes, without an end: a timer that is due stays due, and a request
\* older than REQUEST_INTERVAL_MS stays older
TimePasses ==
  /\ thr' = [thr EXCEPT
               !.lastRequestTimestamp =
                  Max2(@ - FairStep, thr.clock - REQUEST_INTERVAL_MS),
               !.lastStart = Elapse(@, FairStep, thr.clock - REQUEST_INTERVAL_MS),
               !.wake = Elapse(@, FairStep, thr.clock),
               !.caller = [ i \in Callers |->
                              [ thr.caller[i] EXCEPT
                                  !.wake = Elapse(@, FairStep, thr.clock) ] ],
               !.direct = FALSE]
  /\ UNCHANGED <<strategyVars, slot, main, pass, ts, laterVars>>

-----------------------------------------------------------------------------
(* The scheduler of main.ts: bootstrap, execute, the interval timer and     *)
(* shutdown.  main.stage is the await execute() is suspended at, "idle"     *)
(* when no cycle runs; main.boot is how far bootstrap() has come; started,  *)
(* finished and dropped count the cycles and the firings that were dropped. *)

Stages == << "refreshState", "getTopMovers", "process", "sendMoversReport",
             "sendWalletSummary" >>

MainIdle ==
  [ boot |-> "init", isRunning |-> FALSE, isShuttingDown |-> FALSE, timer |-> FALSE,
    stage |-> "idle", closing |-> FALSE, exited |-> FALSE,
    fired |-> 0, started |-> 0, finished |-> 0, dropped |-> 0 ]

\* execute() without its isRunning test: every call starts a cycle
executeAlways(m) ==
  [m EXCEPT !.isRunning = TRUE, !.stage = Stages[1], !.started = @ + 1]

\* execute() up to its first await: a call while a cycle runs returns at once
execute(m) ==
  IF m.isRunning THEN [m EXCEPT !.dropped = @ + 1]
  ELSE [m EXCEPT !.isRunning = TRUE, !.stage = Stages[1], !.started = @ + 1]

\* The finally block of execute(), and what bootstrap() does after its first
\* `await execute()`: setInterval and the signal handlers
executeFinally(m) ==
  LET done == [m EXCEPT !.isRunning = FALSE, !.stage = "idle", !.finished = @ + 1]
  IN IF m.boot = "first" THEN [done EXCEPT !.boot = "up", !.timer = TRUE] ELSE done

\* bootstrap() reaches its `await execute()`
MainBoots ==
  /\ main.boot = "init"
  /\ ~main.exited
  /\ main' = execute([main EXCEPT !.boot = "first"])
  /\ UNCHANGED <<strategyVars, slot, thr, pass, ts, laterVars>>

\* The interval timer fires: void execute()
MainTimerFires ==
  /\ main.timer
  /\ ~main.exited
  /\ main.fired < MaxFirings
  /\ main' = execute([main EXCEPT !.fired = @ + 1])
  /\ UNCHANGED <<strategyVars, slot, thr, pass, ts, laterVars>>

\* The awaited stage of the cycle returns: the next stage starts, the wallet
\* summary only when it is due, and after the last one the cycle ends
MainStageReturns ==
  /\ main.stage # "idle"
  /\ ~main.exited
  /\ \E walletDue \in BOOLEAN :
       LET k == CHOOSE j \in 1..Len(Stages) : Stages[j] = main.stage
       IN IF k < 4 \/ (k = 4 /\ walletDue)
            THEN main' = [main EXCEPT !.stage = Stages[k + 1]]
            ELSE main' = executeFinally(main)
  /\ UNCHANGED <<strategyVars, slot, thr, pass, ts, laterVars>>

\* The awaited stage throws: catch logs, finally ends the cycle
MainStageThrows ==
  /\ main.stage # "idle"
  /\ ~main.exited
  /\ main' = executeFinally(main)
  /\ UNCHANGED <<strategyVars, slot, thr, pass, ts, laterVars>>

\* SIGINT or SIGTERM arrives.  Before the handlers are registered the process
\* is terminated; afterwards shutdown() runs up to `await app.close()`
MainSignal ==
  /\ ~main.exited
  /\ IF main.boot # "up" THEN main' = [main EXCEPT !.exited = TRUE]
     ELSE IF main.isShuttingDown THEN main' = main
     ELSE main' = [main EXCEPT !.isShuttingDown = TRUE, !.timer = FALSE,
                               !.closing = TRUE]
  /\ UNCHANGED <<strategyVars, slot, thr, pass, ts, laterVars>>

\* app.close() has settled: process.exit(0)
MainCloseDone ==
  /\ main.closing
  /\ ~main.exited
  /\ main' = [main EXCEPT !.closing = FALSE, !.exited = TRUE]
  /\ UNCHANGED <<strategyVars, slot, thr, pass, ts, laterVars>>

-----------------------------------------------------------------------------
(* StrategyService.process over several symbols (SpecPasses): the two       *)
(* updateManagedPositions loops around the candidate loop.  The managed map *)
(* is a sequence, in insertion order as a JavaScript Map iterates it;       *)
(* metrics is the set of symbols that result.metrics has this cycle.  What  *)
(* the handlers do to one position is Spec's subject: here a pass over a    *)
(* symbol either keeps or closes it.  opened and passed record, for the     *)
(* cycle, which symbols evaluateCandidate opened and which of them a pass   *)
(* has taken through the handlers since.                                    *)

PassSymbols == 1..MaxPassSymbols

PassIdle ==
  [ pc |-> "idle", managedPositions |-> <<>>, metrics |-> {}, aggregatedTop |-> <<>>,
    entries |-> <<>>, second |-> FALSE, opened |-> {}, passed |-> {} ]

Without(seq, symbol) == SelectSeq(seq, LAMBDA x : x # symbol)

\* await this.updateManagedPositions(result) after the candidates: the loop
\* is over a copy of the map's entries; with none process returns
secondPass(p) ==
  IF p.managedPositions = <<>> THEN [p EXCEPT !.pc = "idle", !.aggregatedTop = <<>>]
  ELSE [p EXCEPT !.pc = "pass", !.aggregatedTop = <<>>, !.second = TRUE,
                 !.entries = p.managedPositions]

\* for (const candidate of result.aggregatedTop)
candidates(p) ==
  IF p.aggregatedTop = <<>> THEN secondPass(p) ELSE [p EXCEPT !.pc = "cand"]

\* The loop of updateManagedPositions moves to its next entry, or is over
nextEntry(p) ==
  IF p.entries # <<>> THEN p
  ELSE IF p.second THEN [p EXCEPT !.pc = "idle"] ELSE candidates(p)

\* process(result): syncPositionStates drops the symbols the exchange no
\* longer holds, then the first updateManagedPositions starts
ProcessStarts ==
  /\ pass.pc = "idle"
  /\ \E metrics \in SUBSET PassSymbols, top \in SUBSET PassSymbols, gone \in SUBSET PassSymbols :
       /\ top \subseteq metrics
       /\ LET kept == SelectSeq(pass.managedPositions, LAMBDA x : x \notin gone)
          IN pass' = nextEntry([ pc |-> "pass", managedPositions |-> kept, metrics |-> metrics,
                                 aggregatedTop |-> Ranked(top), entries |-> kept,
                                 second |-> FALSE, opened |-> {}, passed |-> {} ])
  /\ UNCHANGED <<strategyVars, slot, thr, main, ts, laterVars>>

\* One entry of updateManagedPositions: with metrics the handlers run, and
\* the position is kept or closed by them; without, getMarkPrice returns
\* and the entry is skipped
PassEntry ==
  /\ pass.pc = "pass"
  /\ LET symbol == Head(pass.entries)
         rest == [pass EXCEPT !.entries = Tail(pass.entries)]
     IN IF symbol \in pass.metrics
          THEN \E closed \in BOOLEAN :
                 pass' = nextEntry([rest EXCEPT
                           !.passed = @ \cup {symbol},
                           !.managedPositions = IF closed THEN Without(@, symbol) ELSE @])
          ELSE pass' = nextEntry(rest)
  /\ UNCHANGED <<strategyVars, slot, thr, main, ts, laterVars>>

\* await getMarkPrice(symbol) throws: nothing in updateManagedPositions or
\* process catches it
PassMarkThrows ==
  /\ pass.pc = "pass"
  /\ Head(pass.entries) \notin pass.metrics
  /\ pass' = [pass EXCEPT !.pc = "idle", !.entries = <<>>, !.aggregatedTop = <<>>]
  /\ UNCHANGED <<strategyVars, slot, thr, main, ts, laterVars>>

\* One candidate: no slot remains and the loop breaks; evaluateCandidate
\* returns without a position (a gate, a failed order, an exception that
\* process catches); or it opens one and managedPositions.set adds it
PassCandidate ==
  /\ pass.pc = "cand"
  /\ LET candidate == Head(pass.aggregatedTop)
         rest == [pass EXCEPT !.aggregatedTop = Tail(pass.aggregatedTop)]
         has == \E i \in 1..Len(pass.managedPositions) : pass.managedPositions[i] = candidate
     IN \E outcome \in {"break", "return", "open"} :
          CASE outcome = "break" -> pass' = secondPass(pass)
            [] outcome = "return" -> pass' = candidates(rest)
            [] outcome = "open" ->
                 /\ ~has
                 /\ pass' = candidates([rest EXCEPT
                              !.managedPositions = Append(@, candidate),
                              !.opened = @ \cup {candidate},
                              !.passed = @ \ {candidate}])
  /\ UNCHANGED <<strategyVars, slot, thr, main, ts, laterVars>>


-----------------------------------------------------------------------------
(* handleTimeStop over the life of one position (SpecTimeStop).  Time is in *)
(* minutes.  The position is opened with the minutes of a framework (or the *)
(* defaults 60 and 10 of evaluateCandidate) and a maxR that stays as it is; *)
(* handleTimeStop is evaluated at any time by a pass that is not suspended, *)
(* its order calls return at any later time.  ts.last is what the last      *)
(* evaluation since the clock moved did.                                    *)

TsIdle == [ pc |-> "idle", now |-> 0, state |-> NoObj, last |-> "none" ]

\* The invocation's view: the one managed state, the time, where it resumes
TsCtx(pc) ==
  [ now |-> ts.now, positions |-> NoSummary,
    objs |-> [id \in ObjIds |-> IF id = 1 THEN ts.state ELSE NoObj],
    mapRef |-> 1, subs |-> {}, cyc |-> IdleCycle,
    tk |-> [t \in ThreadIds |-> IF t = 0 THEN [IdleTh EXCEPT !.obj = 1, !.pc = pc] ELSE IdleTh],
    who |-> 0, mark |-> Undef, entry |-> "null" ]

\* evaluateCandidate creates the state: openedAt: Date.now(), timeStopStage: 0
TimeStopOpens ==
  /\ ts.pc = "idle"
  /\ \E minutes \in { <<30, 10>>, <<60, 30>>, <<60, 10>> }, direction \in {"LONG", "SHORT"}, maxR \in {0, 49, 50} :
       ts' = [ts EXCEPT
                !.pc = "open",
                !.state = [NoObj EXCEPT
                   !.live = TRUE, !.direction = direction,
                   !.entryPrice = BasePrice, !.totalQuantity = EntryQty,
                   !.initialSlDistance = 10800, !.slDistance = 10800,
                   !.stopPrice = BasePrice - DirSign(direction) * 10800,
                   !.parentMinutes = minutes[1], !.childMinutes = minutes[2],
                   !.maxR = maxR, !.openedAt = ts.now]]
  /\ UNCHANGED <<strategyVars, slot, thr, main, pass, laterVars>>

TimeStopClock ==
  /\ ts.pc \notin {"idle", "closed"}
  /\ ts.now + TsStep <= MaxTsNow
  /\ ts' = [ts EXCEPT !.now = @ + TsStep, !.last = "none"]
  /\ UNCHANGED <<strategyVars, slot, thr, main, pass, laterVars>>

\* await this.handleTimeStop(state), up to its first await or to its return
TimeStopEvaluates ==
  /\ ts.pc = "open"
  /\ LET d == handleTimeStop(TsCtx("TS"))
         pc == Th(d).pc
     IN ts' = [ts EXCEPT
                 !.state = d.objs[1],
                 !.pc = IF pc \in OrderAwaits THEN pc ELSE "open",
                 !.last = CASE pc = "ts_replace" -> "tighten"
                            [] pc = "close_cancel" -> "close"
                            [] d.objs[1] # ts.state -> "stage"
                            [] OTHER -> "noop"]
  /\ UNCHANGED <<strategyVars, slot, thr, main, pass, laterVars>>

\* The awaited replaceStopLoss, cancelAllOpenOrders or reducePosition returns
TimeStopOrderReturns ==
  /\ ts.pc \in OrderAwaits
  /\ LET d == IF ts.pc = "ts_replace" THEN handleTimeStopResume(TsCtx(ts.pc))
              ELSE closePositionResume(TsCtx(ts.pc))
         pc == Th(d).pc
     IN ts' = [ts EXCEPT
                 !.state = d.objs[1],
                 !.pc = IF pc \in OrderAwaits THEN pc
                        ELSE IF d.mapRef = 0 THEN "closed" ELSE "open"]
  /\ UNCHANGED <<strategyVars, slot, thr, main, pass, laterVars>>

-----------------------------------------------------------------------------
(* evaluateCandidate's gates (SpecGates): one call on a candidate whose      *)
(* metrics sit on either side of every threshold, up to its market order.   *)

NoCall == [ op |-> "none" ]

\* The candidate's metrics: no usable pair of timeframes, 30m over 10m, or
\* 1h over 30m
CandidateMetrics(frame, parentMetric, childMetric) ==
  CASE frame = "30m/10m" ->
         [ label \in {"30m", "10m"} |-> IF label = "30m" THEN parentMetric ELSE childMetric ]
    [] frame = "1h/30m" ->
         [ label \in {"1h", "30m"} |-> IF label = "1h" THEN parentMetric ELSE childMetric ]
    [] OTHER -> [ label \in {"10m"} |-> childMetric ]

\* The invocation's view when evaluateCandidate starts
GateCtx(in) ==
  [ now |-> 1, positions |-> IF in.cached THEN SummaryOf(EntryQty, 0) ELSE NoSummary,
    objs |-> [id \in ObjIds |-> NoObj],
    mapRef |-> IF in.managed THEN 1 ELSE 0, subs |-> {},
    cyc |-> [ phase |-> 1, candidate |-> TRUE, penalty |-> in.penalty,
              metrics |-> CandidateMetrics(in.frame, in.parentMetric, in.childMetric) ],
    tk |-> [t \in ThreadIds |-> IF t = 0 THEN [IdleTh EXCEPT !.pc = "CAND"] ELSE IdleTh],
    who |-> 0, mark |-> Undef, entry |-> "null" ]

GateEvaluates ==
  /\ fn.op = "none"
  /\ \E frame \in {"none", "30m/10m", "1h/30m"}, managed \in BOOLEAN, cached \in BOOLEAN,
     penalty \in {399, 400}, sgn \in {0 - 1, 0, 1}, chop \in {340, 350, 360},
     efficiency \in {449, 450}, align \in {499, 500, 599, 600},
     childEfficiency \in {549, 550}, boost \in {549, 550}, gate \in {649, 650},
     momentumAtr \in {499, 500}, atrValue \in {0, 5000} :
    LET parentMetric == [ParentOf("clean", sgn, BasePrice, FALSE) EXCEPT
                           !.chop = chop, !.efficiency = efficiency, !.align = align]
        childMetric == [ChildOf("clean", sgn, BasePrice) EXCEPT
                          !.efficiency = childEfficiency, !.volumeBoost = boost,
                          !.flowBoost = boost, !.smallMoveGate = gate,
                          !.momentumAtr = momentumAtr, !.atrValue = atrValue]
        in == [ frame |-> frame, managed |-> managed, cached |-> cached, penalty |-> penalty,
                parentMetric |-> parentMetric, childMetric |-> childMetric ]
        d == evaluateCandidate(GateCtx(in))
    IN /\ fn' = [ op |-> "evaluateCandidate", in |-> in,
                  sent |-> Th(d).pc = "order",
                  created |-> d.mapRef # GateCtx(in).mapRef \/ d.objs # GateCtx(in).objs ]
       /\ UNCHANGED <<earlierVars, vol, mov, trade, ctl, brk>>

-----------------------------------------------------------------------------
(* The symbol universe (SpecUniverse): BinanceService.getTopVolumeSymbols    *)
(* and its cache.  Time is in milliseconds.  getTopMovers is its only        *)
(* caller and cycles do not overlap, so one call is in progress at a time.  *)
(* The exchange answers with any small list of tradable symbols and any     *)
(* volumes for some of them, or with a large universe whose volumes are a   *)
(* fixed permutation; vol.last is what the last call returned, and          *)
(* vol.refreshedAt the time at which the refresh that filled the cache      *)
(* was called.                                                              *)

NoCache == [ set |-> FALSE ]

VolIdle ==
  [ pc |-> "idle", now |-> 0, cache |-> NoCache, started |-> 0, requests |-> 0,
    refreshedAt |-> 0, tradable |-> <<>>, last |-> [ kind |-> "none" ] ]

\* An expiry that is still good at the instant it names
cacheValidInclusive(cache, at) == cache.set /\ cache.expiresAt >= at

\* this.topVolumeCache && this.topVolumeCache.expiresAt > now
cacheValid(cache, at) == cache.set /\ cache.expiresAt > at

\* volumeBySymbol[symbol] ?? 0
VolumeOf(volumes, symbol) == IF symbol \in DOMAIN volumes THEN volumes[symbol] ELSE 0

\* Array.prototype.sort with (a, b) => b.volume - a.volume: stable and
\* descending, so an item's place is one more than the number of items with
\* more volume, or with the same volume and listed before it
rankedSymbols(tradableSymbols, volumes) ==
  LET n == Len(tradableSymbols)
      volume == <<>> \o [i \in 1..n |-> VolumeOf(volumes, tradableSymbols[i])]
      place == <<>> \o [i \in 1..n |->
                  1 + Cardinality({ j \in 1..n : \/ volume[j] > volume[i]
                                                 \/ volume[j] = volume[i] /\ j < i })]
  IN <<>> \o [k \in 1..n |-> tradableSymbols[CHOOSE i \in 1..n : place[i] = k]]

selectedSymbols(tradableSymbols, volumes) ==
  LET ranked == rankedSymbols(tradableSymbols, volumes)
      topCount == Min2(MAX_SELECTED_SYMBOLS, Max2(1, CeilDiv(Len(ranked), 2)))
  IN SubSeq(ranked, 1, topCount)

\* What exchangeInfo can list, and what the 24h ticker can report for it
Universes ==
  { Ranked(S) : S \in SUBSET (1..MaxVolSymbols) } \cup { [i \in 1..BigUniverse |-> i] }

VolumeMaps(tradableSymbols) ==
  IF Len(tradableSymbols) > MaxVolSymbols
    THEN { [i \in 1..Len(tradableSymbols) |-> (i * 7) % (Len(tradableSymbols) + 1)] }
    ELSE UNION { [present -> {1, 2}] : present \in SUBSET (1..MaxVolSymbols) }

\* getTopVolumeSymbols() up to its first await: the cached selection, or the
\* request for the tradable symbols
VolCall ==
  /\ vol.pc = "idle"
  /\ vol' = IF cacheValid(vol.cache, vol.now)
              THEN [vol EXCEPT !.requests = 0,
                               !.last = [ kind |-> "cached", symbols |-> vol.cache.symbols,
                                          total |-> vol.cache.total, at |-> vol.now ]]
              ELSE [vol EXCEPT !.pc = "tradable", !.started = vol.now, !.requests = 1,
                               !.last = [ kind |-> "none" ]]
  /\ UNCHANGED <<earlierVars, fn, mov, trade, ctl, brk>>

\* await this.getTradableSymbols() returns: an empty universe is cached as it
\* is, otherwise the volumes are asked for
VolTradableReturns ==
  /\ vol.pc = "tradable"
  /\ \E tradableSymbols \in Universes :
       vol' = IF Len(tradableSymbols) = 0
                THEN [vol EXCEPT
                        !.pc = "idle", !.refreshedAt = vol.started,
                        !.cache = [ set |-> TRUE, symbols |-> <<>>, total |-> 0,
                                    expiresAt |-> vol.started + VOLUME_REFRESH_INTERVAL ],
                        !.last = [ kind |-> "refreshed", symbols |-> <<>>, total |-> 0,
                                   tradable |-> <<>>, volumes |-> <<>>, at |-> vol.now ]]
                ELSE [vol EXCEPT !.pc = "volumes", !.tradable = tradableSymbols, !.requests = 2]
  /\ UNCHANGED <<earlierVars, fn, mov, trade, ctl, brk>>

\* await this.get24hQuoteVolumes() returns: rank, select, cache
VolVolumesReturn ==
  /\ vol.pc = "volumes"
  /\ \E volumes \in VolumeMaps(vol.tradable) :
       LET selected == selectedSymbols(vol.tradable, volumes)
       IN vol' = [vol EXCEPT
                    !.pc = "idle", !.tradable = <<>>, !.refreshedAt = vol.started,
                    !.cache = [ set |-> TRUE, symbols |-> selected, total |-> Len(vol.tradable),
                                expiresAt |-> vol.started + VOLUME_REFRESH_INTERVAL ],
                    !.last = [ kind |-> "refreshed", symbols |-> selected,
                               total |-> Len(vol.tradable), tradable |-> vol.tradable,
                               volumes |-> volumes, at |-> vol.now ]]
  /\ UNCHANGED <<earlierVars, fn, mov, trade, ctl, brk>>

\* requestWithRetry gives up and the exception leaves getTopVolumeSymbols
VolRequestThrows ==
  /\ vol.pc \in {"tradable", "volumes"}
  /\ vol' = [vol EXCEPT !.pc = "idle", !.tradable = <<>>, !.last = [ kind |-> "threw" ]]
  /\ UNCHANGED <<earlierVars, fn, mov, trade, ctl, brk>>

VolClock ==
  /\ vol.now + VolStep <= MaxVolNow
  /\ vol' = [vol EXCEPT !.now = @ + VolStep]
  /\ UNCHANGED <<earlierVars, fn, mov, trade, ctl, brk>>

-----------------------------------------------------------------------------
(* getTopMovers' batches (SpecMovers).  The selection is symbols 1..n in    *)
(* the order getTopVolumeSymbols returned them.  A symbol's callback awaits *)
(* its klines request only (fetchLiquidityMetrics returns at once), and     *)
(* ends with data, with null, or in its catch.                              *)

MovIdle ==
  [ pc |-> "idle", symbols |-> 0, i |-> 0,
    status |-> [s \in 1..MaxMovers |-> "waiting"], symbolDataList |-> <<>> ]

\* How many symbols getTopVolumeSymbols selected
MoverCounts == {0, 5, CONCURRENCY, MaxMovers}

\* A slice one symbol longer than the step of the loop
chunkOverlapping(symbols, i) == (i + 1)..Min2(i + CONCURRENCY + 1, symbols)

\* volumeSelection.symbols.slice(i, i + CONCURRENCY)
chunk(symbols, i) == (i + 1)..Min2(i + CONCURRENCY, symbols)

\* chunk.map(async (symbol) => ...): every callback of the chunk runs to its await
startChunk(m, symbols, i) ==
  [m EXCEPT !.pc = "chunk", !.symbols = symbols, !.i = i,
            !.status = [s \in 1..MaxMovers |->
                          IF s \in chunk(symbols, i) THEN "running" ELSE m.status[s]]]

\* for (const item of chunkResults) if (item) symbolDataList.push(item)
RECURSIVE pushResults(_, _, _, _)
pushResults(list, status, from, to) ==
  IF from > to THEN list
  ELSE pushResults(IF status[from] = "succeeded" THEN Append(list, from) ELSE list,
                   status, from + 1, to)

\* getTopMovers() after getTopVolumeSymbols returned, to the first chunk's await
MovStarts ==
  /\ mov.pc = "idle"
  /\ \E symbols \in MoverCounts :
       mov' = IF symbols = 0 THEN [mov EXCEPT !.pc = "done"]
              ELSE startChunk(mov, symbols, 0)
  /\ UNCHANGED <<earlierVars, fn, vol, trade, ctl, brk>>

\* A symbol's klines request returns or throws and its callback ends
MovSymbolSettles ==
  /\ mov.pc = "chunk"
  /\ \E s \in 1..MaxMovers, outcome \in {"succeeded", "dropped", "failed"} :
       /\ mov.status[s] = "running"
       /\ mov' = [mov EXCEPT !.status[s] = outcome]
  /\ UNCHANGED <<earlierVars, fn, vol, trade, ctl, brk>>

\* await Promise.all(chunk.map(...)) returns: collect, then the next chunk
\* or the end of the loop
MovChunkReturns ==
  /\ mov.pc = "chunk"
  /\ \A s \in 1..MaxMovers : mov.status[s] # "running"
  /\ LET list == pushResults(mov.symbolDataList, mov.status, mov.i + 1,
                             Min2(mov.i + CONCURRENCY, mov.symbols))
         collected == [mov EXCEPT !.symbolDataList = list]
     IN mov' = IF mov.i + CONCURRENCY < mov.symbols
                 THEN startChunk(collected, mov.symbols, mov.i + CONCURRENCY)
                 ELSE [collected EXCEPT !.pc = "done"]
  /\ UNCHANGED <<earlierVars, fn, vol, trade, ctl, brk>>

-----------------------------------------------------------------------------
(* The snapshot of one timeframe (SpecSnapshot): the end of getTopMovers on *)
(* a symbolDataList whose symbols are 1..n, each with the changePercent of  *)
(* its metric for the timeframe or with no such metric.  A metric's         *)
(* changePercent is finite: calculateTimeframeMetrics skips a window whose  *)
(* netChange is not.                                                        *)

\* A symbol's metric for the timeframe: absent, or with its changePercent
NoChange == [ has |-> FALSE ]
Change(changePercent) == [ has |-> TRUE, changePercent |-> changePercent ]
Changes == { Change(c) : c \in {0 - 1, 0, 1} }

\* Short lists with and without metrics, long ones with a metric each
ChangeLists ==
  UNION { [1..n -> {NoChange} \cup Changes] : n \in 0..SmallEntries }
    \cup UNION { [1..n -> Changes] : n \in (TOP_MOVERS - 1)..MaxEntries }

\* metricsByTimeframe[label]: an entry for every symbol that has the metric
entriesOf(changes) ==
  LET has == SelectSeq([i \in 1..Len(changes) |-> i], LAMBDA i : changes[i].has)
  IN <<>> \o [k \in 1..Len(has) |-> [ symbol |-> has[k], changePercent |-> changes[has[k]].changePercent ]]

\* [...entries].sort((a, b) => a.changePercent - b.changePercent), stable
sortedAsc(entries) ==
  LET n == Len(entries)
      place == <<>> \o [i \in 1..n |->
                 1 + Cardinality({ j \in 1..n :
                       \/ entries[j].changePercent < entries[i].changePercent
                       \/ entries[j].changePercent = entries[i].changePercent /\ j < i })]
  IN <<>> \o [k \in 1..n |-> entries[CHOOSE i \in 1..n : place[i] = k]]

\* [...entries].sort((a, b) => b.changePercent - a.changePercent), stable
sortedDesc(entries) ==
  LET n == Len(entries)
      place == <<>> \o [i \in 1..n |->
                 1 + Cardinality({ j \in 1..n :
                       \/ entries[j].changePercent > entries[i].changePercent
                       \/ entries[j].changePercent = entries[i].changePercent /\ j < i })]
  IN <<>> \o [k \in 1..n |-> entries[CHOOSE i \in 1..n : place[i] = k]]

\* A slice that keeps the whole list
sliceAll(list, count) == list

\* list.slice(0, count)
slice(list, count) == SubSeq(list, 1, Min2(count, Len(list)))

\* result[label] for the entries of one timeframe
moversSnapshot(entries) ==
  IF Len(entries) = 0 THEN [ topGainers |-> <<>>, topLosers |-> <<>> ]
  ELSE [ topGainers |-> slice(sortedDesc(entries), TOP_MOVERS),
         topLosers |-> slice(sortedAsc(entries), TOP_MOVERS) ]

SnapshotAssembled ==
  /\ fn.op = "none"
  /\ \E changes \in ChangeLists :
       fn' = [ op |-> "moversSnapshot", in |-> changes,
               out |-> moversSnapshot(entriesOf(changes)) ]
  /\ UNCHANGED <<earlierVars, vol, mov, trade, ctl, brk>>

-----------------------------------------------------------------------------
(* The TradingService and its credentials (SpecCredentials).  One symbol;   *)
(* positions is what the cache holds for it: nothing, a position, or a      *)
(* residual below the flatten threshold.  signed counts the signed requests *)
(* handed to the HTTP client, orders those of them that are orders; an      *)
(* operation runs to its end with the exchange's answers drawn, and last is *)
(* the operation called last and what it returned.                          *)

TradeNew ==
  [ pc |-> "new", apiKey |-> FALSE, apiSecret |-> FALSE, isTradingEnabled |-> FALSE,
    dualSideConfigured |-> FALSE, configuredSymbols |-> FALSE,
    positions |-> "none", totalWalletBalance |-> 0,
    signed |-> 0, orders |-> 0, managed |-> FALSE, last |-> [ op |-> "none" ] ]

\* Enabled by either credential
isTradingEnabledEither(apiKey, apiSecret) == apiKey \/ apiSecret

\* Boolean(this.apiKey && this.apiSecret)
isTradingEnabled(apiKey, apiSecret) == apiKey /\ apiSecret

Ret(t, r) == [ t |-> t, r |-> r ]

\* signedRequest: throws before anything is sent when trading is disabled
tradeSignedRequest(t, ok) ==
  IF ~t.isTradingEnabled THEN Ret(t, "threw")
  ELSE Ret([t EXCEPT !.signed = @ + 1], IF ok THEN "ok" ELSE "threw")

\* The same for an order request
signedOrder(t, ok) ==
  LET o == tradeSignedRequest(t, ok)
  IN Ret([o.t EXCEPT !.orders = @ + (o.t.signed - t.signed)], o.r)

\* canOpenPosition(symbol) on the service's own state
tradeCanOpenPosition(t) ==
  IF ~t.isTradingEnabled THEN FALSE
  ELSE canOpenPosition(t.positions # "none", IF t.positions = "none" THEN 0 ELSE 1)

\* The answers to the two requests of refreshState
RefreshAnswers ==
  { x \in [ balancesOk : BOOLEAN, positionsOk : BOOLEAN, wallet : {0, 1000},
            positions : {"none", "full", "residual"} ] :
      (x.balancesOk /\ x.positionsOk) \/ (x.wallet = 0 /\ x.positions = "none") }

refreshState(t, x) ==
  IF ~t.isTradingEnabled THEN Ret(t, "void")
  ELSE LET a == tradeSignedRequest(t, x.balancesOk)
           b == tradeSignedRequest(a.t, x.positionsOk)
       IN IF a.r = "threw" \/ b.r = "threw" THEN Ret(b.t, "threw")
          ELSE Ret([b.t EXCEPT !.positions = x.positions, !.totalWalletBalance = x.wallet], "void")

DualAnswers == [ getOk : BOOLEAN, status : BOOLEAN, postOk : BOOLEAN, retryOk : BOOLEAN ]

ensureDualSidePosition(t, x) ==
  IF t.dualSideConfigured THEN t
  ELSE LET get == tradeSignedRequest(t, x.getOk)
           post == tradeSignedRequest(get.t, x.postOk)
           retry == tradeSignedRequest(IF get.r = "threw" THEN get.t ELSE post.t, x.retryOk)
       IN IF get.r = "ok" /\ x.status THEN [get.t EXCEPT !.dualSideConfigured = TRUE]
          ELSE IF get.r = "ok" /\ post.r = "ok" THEN [post.t EXCEPT !.dualSideConfigured = TRUE]
          ELSE [retry.t EXCEPT !.dualSideConfigured = (retry.r = "ok")]

initialize(t, xd, xr) ==
  IF ~t.isTradingEnabled THEN Ret(t, "void")
  ELSE Ret(refreshState(ensureDualSidePosition(t, xd), xr).t, "void")

\* marginType and leverage, each failure swallowed
ensureSymbolConfiguration(t) ==
  IF t.configuredSymbols THEN t
  ELSE [tradeSignedRequest(tradeSignedRequest(t, TRUE).t, TRUE).t EXCEPT !.configuredSymbols = TRUE]

OrderAnswers == [ markOk : BOOLEAN, filtersOk : BOOLEAN, quantityOk : BOOLEAN, orderOk : BOOLEAN ]

createMarketOrder(t, x, xr) ==
  IF ~t.isTradingEnabled THEN Ret(t, "null")
  ELSE IF ~tradeCanOpenPosition(t) THEN Ret(t, "null")
  ELSE IF ~x.markOk \/ ~x.filtersOk THEN Ret(t, "threw")
  ELSE LET a == ensureSymbolConfiguration(t)
           o == signedOrder(a, x.orderOk)
           f == refreshState(o.t, xr)
       IN IF a.totalWalletBalance <= 0 \/ ~x.quantityOk THEN Ret(a, "null")
          ELSE IF o.r = "threw" THEN Ret(o.t, "null")
          ELSE Ret(f.t, IF f.r = "threw" THEN "null" ELSE "response")

StopAnswers == [ filtersOk : BOOLEAN, orderOk : BOOLEAN ]

placeStopLoss(t, x) ==
  IF ~t.isTradingEnabled THEN Ret(t, "null")
  ELSE IF ~x.filtersOk THEN Ret(t, "null")
  ELSE LET o == signedOrder(t, x.orderOk)
       IN Ret(o.t, IF o.r = "ok" THEN "response" ELSE "null")

\* submitReduceOnlyOrder for a residual, its failure swallowed
flattenResidualPositions(t, x) ==
  IF ~t.isTradingEnabled THEN Ret(t, "void")
  ELSE IF t.positions = "residual" /\ x.filtersOk
         THEN Ret(signedOrder(t, x.orderOk).t, "void")
  ELSE Ret(t, "void")

\* StrategyService.process: its guard, then its calls on the TradingService
\* for at most one candidate; a state is created once the order went through
process(t, evaluate, xf, x, xr, xs) ==
  IF ~t.isTradingEnabled THEN Ret(t, "void")
  ELSE LET f == flattenResidualPositions(t, xf)
           o == createMarketOrder(f.t, x, xr)
           p == placeStopLoss(o.t, xs)
       IN IF ~evaluate THEN Ret(f.t, "void")
          ELSE IF o.r # "response" THEN Ret(o.t, "void")
          ELSE Ret([p.t EXCEPT !.managed = TRUE], "void")

\* What an operation leaves behind
Called(op, ret) ==
  /\ ret.t.signed <= MaxSigned
  /\ trade' = [ret.t EXCEPT !.last = [ op |-> op, result |-> ret.r ]]
  /\ UNCHANGED <<earlierVars, fn, vol, mov, ctl, brk>>

\* The answers to requests that are made; one stands for all where none is
Only(set, made) == IF made THEN set ELSE { CHOOSE x \in set : TRUE }
Answers(set) == Only(set, trade.isTradingEnabled)
Through(x) == x.markOk /\ x.filtersOk /\ x.quantityOk /\ x.orderOk

\* new TradingService(): the environment has each credential or not
TradeConstructed ==
  /\ trade.pc = "new"
  /\ \E apiKey \in BOOLEAN, apiSecret \in BOOLEAN :
       trade' = [trade EXCEPT !.pc = "ready", !.apiKey = apiKey, !.apiSecret = apiSecret,
                              !.isTradingEnabled = isTradingEnabled(apiKey, apiSecret)]
  /\ UNCHANGED <<earlierVars, fn, vol, mov, ctl, brk>>

TradeCanOpenPosition ==
  /\ trade.pc = "ready"
  /\ Called("canOpenPosition", Ret(trade, IF tradeCanOpenPosition(trade) THEN "true" ELSE "false"))

TradeInitialize ==
  /\ trade.pc = "ready"
  /\ \E xd \in Answers(DualAnswers), xr \in Answers(RefreshAnswers) :
       Called("initialize", initialize(trade, xd, xr))

TradeRefreshState ==
  /\ trade.pc = "ready"
  /\ \E xr \in Answers(RefreshAnswers) : Called("refreshState", refreshState(trade, xr))

TradeCreateMarketOrder ==
  /\ trade.pc = "ready"
  /\ \E x \in Answers(OrderAnswers) :
       \E xr \in Only(RefreshAnswers, trade.isTradingEnabled /\ Through(x)) :
         Called("createMarketOrder", createMarketOrder(trade, x, xr))

TradePlaceStopLoss ==
  /\ trade.pc = "ready"
  /\ \E x \in Answers(StopAnswers) : Called("placeStopLoss", placeStopLoss(trade, x))

TradeFlattenResidualPositions ==
  /\ trade.pc = "ready"
  /\ \E x \in Answers(StopAnswers) :
       Called("flattenResidualPositions", flattenResidualPositions(trade, x))

StrategyProcess ==
  /\ trade.pc = "ready"
  /\ \E evaluate \in Answers(BOOLEAN) :
       \E xf \in Only(StopAnswers, trade.isTradingEnabled /\ trade.positions = "residual"),
          x \in Only(OrderAnswers, trade.isTradingEnabled /\ evaluate) :
         \E xr \in Only(RefreshAnswers, trade.isTradingEnabled /\ evaluate /\ Through(x)) :
           \E xs \in Only(StopAnswers, trade.isTradingEnabled /\ evaluate /\ Through(x) /\ xr.balancesOk /\ xr.positionsOk) :
             Called("process", process(trade, evaluate, xf, x, xr, xs))

-----------------------------------------------------------------------------
(* BinanceController (SpecController).  The service is the controller's     *)
(* dependency: what its getMovers answers is drawn, and ctl.calls is what   *)
(* it was called with.                                                      *)

CtlIdle == [ requests |-> <<>>, calls |-> <<>>, answers |-> <<>>, returned |-> <<>> ]

\* The timeframe argument after the ParseEnumPipe: absent, or a label
Timeframes == {"undefined", "10m", "30m", "1h", "2h"}

\* What the service's promise does
ServiceAnswers == {"all", "snapshot", "empty", "rejects"}

\* A controller that always asks for every timeframe
getMoversOfAll(calls, timeframe, answer) ==
  [ calls |-> Append(calls, "undefined"), returned |-> answer ]

\* return this.binanceService.getMovers(timeframe)
getMovers(calls, timeframe, answer) ==
  [ calls |-> Append(calls, timeframe), returned |-> answer ]

\* GET /futures/movers
ControllerGetMovers ==
  /\ Len(ctl.requests) < MaxRequests
  /\ \E timeframe \in Timeframes, answer \in ServiceAnswers :
       LET r == getMovers(ctl.calls, timeframe, answer)
       IN ctl' = [ requests |-> Append(ctl.requests, timeframe), calls |-> r.calls,
                   answers |-> Append(ctl.answers, answer),
                   returned |-> Append(ctl.returned, r.returned) ]
  /\ UNCHANGED <<earlierVars, fn, vol, mov, trade, brk>>

-----------------------------------------------------------------------------
(* handleStructureBreak over the life of one position (SpecStructure).  The *)
(* cycle's pass evaluates it on the child metric of the cycle, a tick       *)
(* handler on the child snapshot with the live price appended; the pass and *)
(* the handler are two invocations on the same state, and either evaluates  *)
(* while the other is suspended in closePosition.  brk.last is the last     *)
(* evaluation: who made it, the metric, the counter before and after.       *)

BrkKinds == {"cycle", "tick"}

BrkIdle ==
  [ opened |-> FALSE, managed |-> FALSE, state |-> NoObj,
    pc |-> [kind \in BrkKinds |-> "idle"], last |-> [ kind |-> "none" ] ]

BrkWho(kind) == IF kind = "cycle" THEN 0 ELSE 1

\* The invocation's view: the one state, in the map or deleted from it
BrkCtx(kind, pc, childMetric) ==
  [ now |-> 1, positions |-> NoSummary,
    objs |-> [id \in ObjIds |-> IF id = 1 THEN brk.state ELSE NoObj],
    mapRef |-> IF brk.managed THEN 1 ELSE 0, subs |-> {}, cyc |-> IdleCycle,
    tk |-> [t \in ThreadIds |->
              IF t = BrkWho(kind)
                THEN [IdleTh EXCEPT !.obj = 1, !.pc = pc, !.child = childMetric]
                ELSE IdleTh],
    who |-> BrkWho(kind), mark |-> Undef, entry |-> "null" ]

\* The closes around the thresholds the position can have
BrkCloses(state) ==
  { Coalesce(state.trailPrice, state.stopPrice) + DirSign(state.direction) * 1500 + e :
      e \in {0 - 1, 0, 1} }

\* closeHistory of the cycle's child metric: none, one or two closes, or
\* three of which the last two count
BrkHistories(state) ==
  {<<>>} \cup { <<a>> : a \in BrkCloses(state) }
         \cup { <<a, b>> : a, b \in BrkCloses(state) }
         \cup { <<BasePrice, a, b>> : a, b \in BrkCloses(state) }

BrkMetric(atrValue, closes) ==
  [ChildOf("clean", 0, BasePrice) EXCEPT !.atrValue = atrValue, !.closeHistory = closes]

\* evaluateCandidate creates the state (structureBreakCounter: 0); a trailing
\* update may have set trailPrice since
BreakOpens ==
  /\ ~brk.opened
  /\ \E direction \in {"LONG", "SHORT"}, trailed \in BOOLEAN, childAtr \in {0, 5000} :
       brk' = [brk EXCEPT
                 !.opened = TRUE, !.managed = TRUE,
                 !.state = [NoObj EXCEPT
                    !.live = TRUE, !.direction = direction,
                    !.entryPrice = BasePrice, !.totalQuantity = EntryQty,
                    !.initialSlDistance = 10800, !.slDistance = 10800,
                    !.stopPrice = BasePrice - DirSign(direction) * 10800,
                    !.trailPrice = IF trailed THEN BasePrice - DirSign(direction) * 5000
                                   ELSE Undef,
                    !.childAtr = childAtr,
                    !.childMetricSnapshot = BrkMetric(5000, <<BasePrice, BasePrice>>)]]
  /\ UNCHANGED <<earlierVars, fn, vol, mov, trade, ctl>>

\* One evaluation and what it leaves behind
BrkEvaluated(kind, childMetric, d) ==
  [brk EXCEPT
     !.state = d.objs[1],
     !.pc[kind] = IF Th(d).pc \in OrderAwaits THEN Th(d).pc ELSE "idle",
     !.last = [ kind |-> kind, child |-> childMetric,
                before |-> brk.state.structureBreakCounter,
                counter |-> d.objs[1].structureBreakCounter,
                closing |-> Th(d).pc = "close_cancel" ]]

\* updateManagedPositions: await this.handleStructureBreak(state, childMetric)
BreakCycleEvaluates ==
  /\ brk.managed /\ brk.pc["cycle"] = "idle"
  /\ brk.state.structureBreakCounter < MaxBreaks
  /\ \E atrValue \in {Undef, 0, 5000}, closes \in BrkHistories(brk.state) :
       LET childMetric == BrkMetric(atrValue, closes)
           c == BrkCtx("cycle", "SB", childMetric)
           d == handleStructureBreak([c EXCEPT !.objs[1].childMetricSnapshot = childMetric])
       IN brk' = BrkEvaluated("cycle", childMetric, d)
  /\ UNCHANGED <<earlierVars, fn, vol, mov, trade, ctl>>

\* handleLivePriceTick: await this.handleStructureBreak(state, liveChildMetric)
BreakTickEvaluates ==
  /\ brk.managed /\ brk.pc["tick"] = "idle"
  /\ brk.state.structureBreakCounter < MaxBreaks
  /\ \E price \in BrkCloses(brk.state) :
       LET liveChildMetric == withLivePrice(brk.state.childMetricSnapshot, price)
           d == handleStructureBreak(BrkCtx("tick", "SB", liveChildMetric))
       IN brk' = BrkEvaluated("tick", liveChildMetric, d)
  /\ UNCHANGED <<earlierVars, fn, vol, mov, trade, ctl>>

\* The awaited cancelAllOpenOrders or reducePosition of a closePosition returns
BreakCloseReturns ==
  \E kind \in BrkKinds :
    /\ brk.pc[kind] \in {"close_cancel", "close_reduce"}
    /\ LET d == closePositionResume(BrkCtx(kind, brk.pc[kind], NoMetric))
       IN brk' = [brk EXCEPT
                    !.state = d.objs[1],
                    !.managed = d.mapRef # 0,
                    !.pc[kind] = IF Th(d).pc \in OrderAwaits THEN Th(d).pc ELSE "idle"]
    /\ UNCHANGED <<earlierVars, fn, vol, mov, trade, ctl>>

-----------------------------------------------------------------------------
(* selectFramework (SpecFramework): one call on the metrics of a candidate  *)
(* that has any of the four timeframes, its 1h metric on either side of the *)
(* thresholds of the 1h parent; the candidate is then evaluated.            *)

FrameworkLabels == {"10m", "30m", "1h", "2h"}

\* The candidate's metrics: every timeframe passes the entry gates
FrameworkMetrics(present, sgn, chop, efficiency) ==
  [ label \in present |->
      IF label = "1h"
        THEN [ParentOf("clean", sgn, BasePrice, FALSE) EXCEPT
                !.chop = chop, !.efficiency = efficiency]
        ELSE ChildOf("clean", 1, BasePrice) ]

FrameworkSelected ==
  /\ fn.op = "none"
  /\ \E present \in SUBSET FrameworkLabels, sgn \in {0 - 1, 0, 1},
        chop \in {200, 300, 301}, efficiency \in {549, 550} :
       LET metrics == FrameworkMetrics(present, sgn, chop, efficiency)
           in == [ frame |-> "none", managed |-> FALSE, cached |-> FALSE, penalty |-> 0,
                   parentMetric |-> NoMetric, childMetric |-> NoMetric ]
           d == evaluateCandidate([GateCtx(in) EXCEPT !.cyc.metrics = metrics])
       IN fn' = [ op |-> "selectFramework", in |-> metrics,
                  out |-> selectFramework(metrics),
                  sent |-> Th(d).pc = "order" ]
  /\ UNCHANGED <<earlierVars, vol, mov, trade, ctl, brk>>

-----------------------------------------------------------------------------
(* The candle window (SpecWindow): fetchOneMinuteCandles on the rows of one *)
(* klines response, then calculateTimeframeMetrics up to the point where a  *)
(* timeframe is skipped or its metric is computed.  The response holds the  *)
(* minutes from some depth back to the latest one, with some minutes        *)
(* missing, some rows repeated and some rows with a non-finite field, in    *)
(* either order.                                                            *)

MoversLabels == <<"10m", "30m", "1h", "2h">>

\* One row of the response at `offset` minutes before the latest
CandleRow(offset, finite) ==
  [ openTime |-> (LatestMinute - offset) * ONE_MINUTE_MS, finite |-> finite,
    open |-> 1, close |-> 1 ]

\* The rows in the order of the response, oldest first
CandleRows(depth, missing, repeated, broken) ==
  LET items == { item \in (0..depth) \X {1, 2} :
                   item[1] \notin missing /\ (item[2] = 1 \/ item[1] \in repeated) }
      Before(a, b) == a[1] > b[1] \/ (a[1] = b[1] /\ a[2] < b[2])
      place == [ a \in items |-> Cardinality({ b \in items : Before(b, a) }) + 1 ]
  IN <<>> \o [ i \in 1..Cardinality(items) |->
                 LET a == CHOOSE a \in items : place[a] = i
                 IN CandleRow(a[1], a[1] \notin broken) ]

Reversed(rows) == [i \in 1..Len(rows) |-> rows[Len(rows) + 1 - i]]

\* candles.sort((a, b) => a.openTime - b.openTime): stable, ascending; each
\* candle goes to the place after those that sort before it
sortCandles(candles) ==
  LET n == Len(candles)
      place == <<>> \o [ i \in 1..n |->
                 Cardinality({ j \in 1..n :
                   \/ candles[j].openTime < candles[i].openTime
                   \/ candles[j].openTime = candles[i].openTime /\ j < i }) + 1 ]
  IN <<>> \o [ k \in 1..n |-> candles[CHOOSE i \in 1..n : place[i] = k] ]

IsFiniteRow(row) == row.finite

\* The rows with every field finite, sorted by openTime
fetchOneMinuteCandles(rows) ==
  sortCandles(SelectSeq(rows, IsFiniteRow))

\* byOpenTime.get(targetOpenTime): the last candle set under that key
byOpenTime(candles, openTime) ==
  LET at == { i \in 1..Len(candles) : candles[i].openTime = openTime }
  IN IF at = {} THEN [ found |-> FALSE ]
     ELSE [ found |-> TRUE, candle |-> candles[CHOOSE i \in at : \A j \in at : j <= i] ]

windowCandles(candles, targetOpenTime, latestOpenTime) ==
  LET InWindow(candle) == candle.openTime > targetOpenTime /\ candle.openTime <= latestOpenTime
  IN SelectSeq(candles, InWindow)

\* One timeframe of the loop: is its metric computed
timeframeProduced(candles, label) ==
  LET latest == candles[Len(candles)]
      minutes == timeframeMinutes(label)
      targetOpenTime == latest.openTime - minutes * ONE_MINUTE_MS
      reference == byOpenTime(candles, targetOpenTime)
  IN IF ~reference.found THEN FALSE
     ELSE IF reference.candle.close = 0 THEN FALSE
     ELSE IF Len(windowCandles(candles, targetOpenTime, latest.openTime)) < minutes THEN FALSE
     ELSE TRUE

\* The labels of the metrics calculateTimeframeMetrics returns
calculateTimeframeMetrics(candles) ==
  IF Len(candles) = 0 THEN {}
  ELSE IF candles[Len(candles)].close = 0 THEN {}
  ELSE { MoversLabels[i] : i \in { j \in 1..Len(MoversLabels) :
                                     timeframeProduced(candles, MoversLabels[j]) } }

WindowComputed ==
  /\ fn.op = "none"
  /\ \E depth \in {0, 9, 10, 11, 30, 60, MaxDepth}, missing \in SUBSET {5, 40},
        repeated \in SUBSET {0, 3}, broken \in SUBSET {2}, newestFirst \in BOOLEAN :
       LET rows == CandleRows(depth, missing, repeated, broken)
           candles == fetchOneMinuteCandles(IF newestFirst THEN Reversed(rows) ELSE rows)
       IN fn' = [ op |-> "calculateTimeframeMetrics", rows |-> Len(rows),
                  repeated |-> repeated \ missing,
                  in |-> candles, out |-> calculateTimeframeMetrics(candles) ]
  /\ UNCHANGED <<earlierVars, vol, mov, trade, ctl, brk>>

-----------------------------------------------------------------------------
(* The order quantity (SpecQuantity): the sizing of createMarketOrder, from *)
(* the wallet balance, the mark price and the symbol's filters to the       *)
(* quantity of the payload.  Balances, prices and notionals are integers    *)
(* in USDT; quantities are integers in thousandths of a contract and a      *)
(* quotient that is not yet floored is a fraction num / den of them.        *)
(* stepSize is a power of ten from 0.001 to 1 with the matching             *)
(* quantityPrecision, as the exchange lists them.                           *)

\* Math.min(Math.max(value, 0.1), 1), in per-mille
normalizeSizeScale(value) == Min2(Max2(value, 100), 1000)

\* Math.floor(value * factor) / factor for value = num / den thousandths,
\* factor = Math.round(1 / stepSize)
applyStepSize(num, den, stepSize) ==
  IF num <= 0 THEN 0
  ELSE IF stepSize <= 0 THEN num \div den
  ELSE (num \div (den * stepSize)) * stepSize

\* quantity.toFixed(precision), read back as thousandths
formatQuantity(quantity, precision) ==
  LET unit == CASE precision = 0 -> 1000 [] precision = 1 -> 100
                [] precision = 2 -> 10 [] OTHER -> 1
  IN ((2 * quantity + unit) \div (2 * unit)) * unit

quantityPrecisionOf(stepSize) ==
  CASE stepSize = 1000 -> 0 [] stepSize = 100 -> 1 [] stepSize = 10 -> 2 [] OTHER -> 3

\* createMarketOrder from `const sizeScale` to the payload's quantity: the
\* order is not posted when margin <= 0 or quantity <= 0
marketOrderQuantity(totalWalletBalance, options, markPrice, filters) ==
  LET sizeScale == normalizeSizeScale(options)
      \* notional = (totalWalletBalance / 5) * sizeScale * leverage, and
      \* rawQty = notional / markPrice as rawNum / rawDen thousandths
      rawNum == totalWalletBalance * sizeScale * DEFAULT_LEVERAGE
      rawDen == 5 * markPrice
      floored == IF rawNum >= filters.minQty * rawDen
                   THEN applyStepSize(rawNum, rawDen, filters.stepSize)
                   ELSE applyStepSize(filters.minQty, 1, filters.stepSize)
      quantity == IF filters.minNotional # 0 /\ floored * markPrice < filters.minNotional * 1000
                    THEN applyStepSize(filters.minNotional * 1000, markPrice, filters.stepSize)
                    ELSE floored
  IN IF totalWalletBalance * sizeScale <= 0 THEN [ posted |-> FALSE ]
     ELSE IF quantity <= 0 THEN [ posted |-> FALSE ]
     ELSE [ posted |-> TRUE, floored |-> floored,
            quantity |-> formatQuantity(quantity, filters.quantityPrecision) ]

QuantityComputed ==
  /\ fn.op = "none"
  /\ \E totalWalletBalance \in {0, 5, 50, 1000}, options \in {50, 500, 1000, 2000},
        markPrice \in {3, 7, 100}, stepSize \in {1, 10, 1000}, minQty \in {1, 1000},
        minNotional \in {0, 5, 100} :
       LET filters == [ stepSize |-> stepSize, minQty |-> minQty, minNotional |-> minNotional,
                        quantityPrecision |-> quantityPrecisionOf(stepSize) ]
       IN fn' = [ op |-> "createMarketOrder",
                  in |-> [ totalWalletBalance |-> totalWalletBalance, sizeScale |-> options,
                           markPrice |-> markPrice, filters |-> filters ],
                  out |-> marketOrderQuantity(totalWalletBalance, options, markPrice, filters) ]
  /\ UNCHANGED <<earlierVars, vol, mov, trade, ctl, brk>>

-----------------------------------------------------------------------------
(* applyAlignment (SpecAlignment): one call on the metrics of a symbol that *)
(* has any of the four timeframes, each with a change that is negative,     *)
(* zero or positive.  align is in per-mille.                                *)

Finite(changePercent) == [ finite |-> TRUE, changePercent |-> changePercent ]

\* Math.sign of a change that is finite
directionOf(metric) == Sign(metric.changePercent)

\* The other timeframes that are compared: finite, with a direction
comparedWith(metrics, label) ==
  { otherLabel \in DOMAIN metrics \ {label} :
      metrics[otherLabel].finite /\ directionOf(metrics[otherLabel]) # 0 }

\* An opposite timeframe costs a whole point instead of half of one
alignOfFullPenalty(metrics, label) ==
  LET metric == metrics[label]
      others == comparedWith(metrics, label)
      comparisons == Cardinality(others)
      agreeing == Cardinality({ o \in others : directionOf(metrics[o]) = directionOf(metric) })
      scoreSum2 == 2 * agreeing - 2 * (comparisons - agreeing)
  IN IF ~metric.finite THEN 500
     ELSE IF directionOf(metric) = 0 THEN 500
     ELSE IF comparisons = 0 THEN 500
     ELSE clamp((1000 * (scoreSum2 + comparisons)) \div (3 * comparisons), 0, 1000)

\* The body of applyAlignment's loop: metric.align of one timeframe, with
\* scoreSum2 = 2 * scoreSum
alignOf(metrics, label) ==
  LET metric == metrics[label]
      others == comparedWith(metrics, label)
      comparisons == Cardinality(others)
      agreeing == Cardinality({ o \in others : directionOf(metrics[o]) = directionOf(metric) })
      scoreSum2 == 2 * agreeing - (comparisons - agreeing)
  IN IF ~metric.finite THEN 500
     ELSE IF directionOf(metric) = 0 THEN 500
     ELSE IF comparisons = 0 THEN 500
     ELSE clamp((1000 * (scoreSum2 + comparisons)) \div (3 * comparisons), 0, 1000)

applyAlignment(metrics) == [ label \in DOMAIN metrics |-> alignOf(metrics, label) ]

\* calculateTimeframeMetrics produces no metric whose change is not finite
Alignable == { Finite(changePercent) : changePercent \in {0 - 2, 0, 3} }

AlignmentApplied ==
  /\ fn.op = "none"
  /\ \E present \in SUBSET FrameworkLabels :
       \E metrics \in [present -> Alignable] :
         fn' = [ op |-> "applyAlignment", in |-> metrics, out |-> applyAlignment(metrics) ]
  /\ UNCHANGED <<earlierVars, vol, mov, trade, ctl, brk>>

-----------------------------------------------------------------------------
(* Initial state and the specifications *)

Init ==
  /\ now = 1
  /\ positions = NoSummary
  /\ objs = [id \in ObjIds |-> NoObj]
  /\ mapRef = 0
  /\ subs = {}
  /\ cyc = IdleCycle
  /\ tk = [t \in ThreadIds |-> IF t = 0 THEN [IdleTh EXCEPT !.pc = "refresh"] ELSE IdleTh]
  /\ ticks = 0
  /\ slot = SlotsIdle
  /\ thr = ThrottleIdle
  /\ main = MainIdle
  /\ pass = PassIdle
  /\ ts = TsIdle
  /\ fn = NoCall
  /\ vol = VolIdle
  /\ mov = MovIdle
  /\ trade = TradeNew
  /\ ctl = CtlIdle
  /\ brk = BrkIdle

Next ==
  \/ TimerFires
  \/ RefreshDone
  \/ RefreshFails
  \/ MoversDone
  \/ FlattenDone
  \/ MarkDone
  \/ OrderDone
  \/ StopDone
  \/ \E who \in ThreadIds : OrderReturns(who)
  \/ \E who \in ThreadIds : OrderFails(who)
  \/ TickArrives

Spec == Init /\ [][Next]_vars

NextSlots ==
  \/ SlotsCycleStarts
  \/ SlotsCandidate
  \/ SlotsOrderSettles
  \/ SlotsPositionCloses

SpecSlots == Init /\ [][NextSlots]_vars

NextThrottle ==
  \/ \E i \in Callers : ThrottleCall(i)
  \/ ThrottleWakes
  \/ \E i \in Callers : RequestReturns(i)
  \/ \E i \in Callers, error \in ThrottleErrors : RequestThrows(i, error)
  \/ \E i \in Callers : BackoffEnds(i)
  \/ ExecutorRequest
  \/ ClockAdvances

SpecThrottle == Init /\ [][NextThrottle]_vars

\* One call of requestWithRetry at a time, followed through its retries
NextRetry ==
  \/ ThrottleCall(1)
  \/ ThrottleWakes
  \/ RequestReturns(1)
  \/ \E error \in Errors : RequestThrows(1, error)
  \/ BackoffEnds(1)
  \/ RetryClockAdvances

SpecRetry == Init /\ [][NextRetry]_vars

\* The request of caller i settles: it returns a response or throws
RequestSettles(i) ==
  \/ RequestReturns(i)
  \/ \E error \in ThrottleErrors : RequestThrows(i, error)

NextThrottleFair ==
  \/ \E i \in Callers : ThrottleCall(i)
  \/ ThrottleWakes
  \/ \E i \in Callers : RequestSettles(i)
  \/ \E i \in Callers : BackoffEnds(i)
  \/ TimePasses

\* The limiter under fair scheduling: time passes, a timer that is due fires
\* (setTimeout), and a request that was sent settles
SpecThrottleFair ==
  /\ Init
  /\ [][NextThrottleFair]_vars
  /\ WF_vars(TimePasses)
  /\ WF_vars(ThrottleWakes)
  /\ \A i \in Callers : WF_vars(BackoffEnds(i))
  /\ \A i \in Callers : WF_vars(RequestSettles(i))

NextMain ==
  \/ MainBoots
  \/ MainTimerFires
  \/ MainStageReturns
  \/ MainStageThrows
  \/ MainSignal
  \/ MainCloseDone

SpecMain == Init /\ [][NextMain]_vars

NextPasses ==
  \/ ProcessStarts
  \/ PassEntry
  \/ PassMarkThrows
  \/ PassCandidate

SpecPasses == Init /\ [][NextPasses]_vars

NextTimeStop ==
  \/ TimeStopOpens
  \/ TimeStopClock
  \/ TimeStopEvaluates
  \/ TimeStopOrderReturns

SpecTimeStop == Init /\ [][NextTimeStop]_vars

NextGates == GateEvaluates

SpecGates == Init /\ [][NextGates]_vars

NextUniverse ==
  \/ VolCall
  \/ VolTradableReturns
  \/ VolVolumesReturn
  \/ VolRequestThrows
  \/ VolClock

SpecUniverse == Init /\ [][NextUniverse]_vars

NextMovers ==
  \/ MovStarts
  \/ MovSymbolSettles
  \/ MovChunkReturns

SpecMovers == Init /\ [][NextMovers]_vars

NextSnapshot == SnapshotAssembled

SpecSnapshot == Init /\ [][NextSnapshot]_vars

NextCredentials ==
  \/ TradeConstructed
  \/ TradeCanOpenPosition
  \/ TradeInitialize
  \/ TradeRefreshState
  \/ TradeCreateMarketOrder
  \/ TradePlaceStopLoss
  \/ TradeFlattenResidualPositions
  \/ StrategyProcess

SpecCredentials == Init /\ [][NextCredentials]_vars

NextController == ControllerGetMovers

SpecController == Init /\ [][NextController]_vars

NextStructure ==
  \/ BreakOpens
  \/ BreakCycleEvaluates
  \/ BreakTickEvaluates
  \/ BreakCloseReturns

SpecStructure == Init /\ [][NextStructure]_vars

NextFramework == FrameworkSelected

SpecFramework == Init /\ [][NextFramework]_vars

NextWindow == WindowComputed

SpecWindow == Init /\ [][NextWindow]_vars

NextQuantity == QuantityComputed

SpecQuantity == Init /\ [][NextQuantity]_vars

NextAlignment == AlignmentApplied

SpecAlignment == Init /\ [][NextAlignment]_vars

-----------------------------------------------------------------------------
(* Claims about the strategy (Spec) *)

\* An invocation is inside a management pass of the symbol: suspended at an
\* await of updateManagedPositions (who = 0) or of handleLivePriceTick
InPass(t) == tk[t].pc \in OrderAwaits \/ (t = 0 /\ tk[0].pc = "mark")

\* C1: at any time at most one management pass (the cycle's
\* updateManagedPositions or a handleLivePriceTick handler) is executing or
\* suspended at an await for the managed symbol.
C1_StrictlySequential == Cardinality({ t \in ThreadIds : InPass(t) }) <= 1

\* The tick handlers in flight for the symbol
HandlersInFlight == { o \in ObjIds : tk[o].pc \in OrderAwaits }

\* C2 (first part): a tick is never processed concurrently with a tick
\* handler of the symbol that is still in flight.
C2_OneHandlerInFlight == Cardinality(HandlersInFlight) <= 1

\* The stop is not on the adverse side of the entry price
AtOrBeyondEntry(state) ==
  IF state.direction = "LONG" THEN state.stopPrice >= state.entryPrice
  ELSE state.stopPrice <= state.entryPrice

\* C3: once beMoved holds for a position, no later stop update (trailing,
\* time stop, partial, add) sets stopPrice to the adverse side of entryPrice.
C3_BreakEvenInvariant ==
  [][ \A o \in ObjIds :
        (objs[o].beMoved /\ objs'[o].live /\ objs'[o].stopPrice # objs[o].stopPrice)
          => AtOrBeyondEntry(objs'[o]) ]_vars

\* A trailing update has been applied to the object: its stop is the trail
\* price, or a trail price exists and no trailing update is still awaited
Trailed(o) ==
  /\ objs[o].live
  /\ objs[o].trailPrice # Undef
  /\ \/ objs[o].stopPrice = objs[o].trailPrice
     \/ \A t \in ThreadIds : ~(tk[t].obj = o /\ tk[t].pc = "trail_replace")

\* The stop did not move back toward the adverse side
NotLoosened(old, new) ==
  IF old.direction = "LONG" THEN new.stopPrice >= old.stopPrice
  ELSE new.stopPrice <= old.stopPrice

\* C4: after a trailing update has been applied to a position its stopPrice is
\* monotonic in the favourable direction (LONG non-decreasing, SHORT
\* non-increasing): no later break-even move, trailing update or time-stop
\* tightening moves it back.
C4_TrailingMonotonic ==
  [][ \A o \in ObjIds :
        (Trailed(o) /\ objs'[o].live) => NotLoosened(objs[o], objs'[o]) ]_vars

\* C5: right after syncPositionStates a managed state remains only if the
\* executor's summary reports more than 1e-6 on the leg of its own direction.
C5_SyncKeepsOnlyOwnLeg ==
  (tk[0].pc = "flatten" /\ mapRef # 0)
    => LegOf(positions, IF objs[mapRef].direction = "LONG" THEN "long" ELSE "short") > QtyEps

\* The fields an order that was not executed must leave alone
SameOrderFields(old, new) ==
  /\ new.totalQuantity = old.totalQuantity
  /\ new.addCount = old.addCount
  /\ new.stopPrice = old.stopPrice
  /\ new.slDistance = old.slDistance
  /\ new.beMoved = old.beMoved
  /\ new.partialOneTaken = old.partialOneTaken
  /\ new.partialTwoTaken = old.partialTwoTaken

\* C6: when an order operation on an existing position fails and returns
\* null, the position's totalQuantity, addCount, stopPrice, slDistance,
\* beMoved and partial flags are left unchanged.
C6_NullMeansNoAction ==
  [][ \A who \in ThreadIds :
        (OrderFails(who) /\ objs'[tk[who].obj].live)
          => SameOrderFields(objs[tk[who].obj], objs'[tk[who].obj]) ]_vars

\* C8: addCount of a managed position never exceeds 2 and never decreases.
C8_AddCountAtMostTwo == \A o \in ObjIds : objs[o].addCount <= 2

\* Every price the environment shows
AllPrices == UNION { Prices(sgn) : sgn \in MarketSigns }

\* C9: initialSlDistance is set once, when the position is opened, to the
\* entry slDistance = kSl x child ATR; no later operation changes it, though
\* slDistance and stopPrice change; and every R multiple the strategy records
\* is the price move measured against it.
C9_InitialSlDistanceImmutable ==
  [][ \A o \in ObjIds :
        /\ (objs[o].live /\ objs'[o].live)
             => objs'[o].initialSlDistance = objs[o].initialSlDistance
        /\ (~objs[o].live /\ objs'[o].live)
             => /\ objs'[o].initialSlDistance = (objs'[o].kSl * objs'[o].childAtr) \div 1000
                /\ objs'[o].initialSlDistance > 0
        /\ (objs'[o].live /\ objs'[o].maxR # objs[o].maxR)
             => \E p \in AllPrices :
                  objs'[o].maxR =
                    Max2(0, (100 * DirSign(objs'[o].direction) * (p - objs'[o].entryPrice))
                              \div objs'[o].initialSlDistance) ]_vars

\* A position whose stop distance has moved away from the initial one
C9_DistanceMoved ==
  \E o \in ObjIds :
    /\ objs[o].live
    /\ objs[o].beMoved
    /\ objs[o].slDistance # objs[o].initialSlDistance
    /\ objs[o].maxR >= 100

-----------------------------------------------------------------------------
(* Claims about the position slots (SpecSlots) *)

\* C7 (second part): across any sequence of cycles the number of symbols the
\* exchange holds through strategy entries never exceeds MAX_POSITIONS.
C7_AtMostFiveHeld == Cardinality(slot.held) <= MAX_POSITIONS

-----------------------------------------------------------------------------
(* Claims about the rate limiter (SpecThrottle) *)

\* C10: any two consecutive outbound request starts, of whichever callers
\* and attempts, are at least REQUEST_INTERVAL_MS apart.
C10_RequestSpacing == thr.gap # Undef => thr.gap >= REQUEST_INTERVAL_MS

\* Two callers asked at the same time, the second request has started after
\* the first, and a retry has been started too
C10_SecondStarted ==
  /\ thr.gap # Undef
  /\ \E i \in Callers : thr.caller[i].pc = "request" /\ thr.caller[i].attempt >= 2
  /\ \E i \in Callers : thr.caller[i].pc = "throttle"

\* C11: every outbound exchange call takes the limiter's slot before it is
\* sent: a step in which the executor sends a request is a step in which
\* lastRequestTimestamp is stamped with the current time.
C11_NoBypass ==
  [][ (thr'.direct /\ ~thr.direct)
        => (thr'.lastRequestTimestamp = thr'.clock
              /\ thr'.lastRequestTimestamp # thr.lastRequestTimestamp) ]_vars

-----------------------------------------------------------------------------
(* Claims about the retry loop (SpecRetry) *)

\* The wait after the n-th failed attempt: 500 ms doubling, at most 4000 ms
BackoffDelay(n) == Min2(RETRY_BACKOFF_BASE_MS * 2 ^ (n - 1), MAX_RETRY_BACKOFF_MS)

RECURSIVE TotalBackoff(_)
TotalBackoff(k) == IF k = 0 THEN 0 ELSE TotalBackoff(k - 1) + BackoffDelay(k)

\* C12: a request that failed k times with transient errors is at its
\* attempt k+1 and has waited at least 500, 1000, 2000, ... ms between the
\* attempts, each wait at least the doubled delay (k = 2: attempt 3 after at
\* least 1500 ms of backoff).
C12_RetryBackoff ==
  [][ \A i \in Callers :
        /\ thr'.caller[i].pc = "request"
             => /\ thr'.caller[i].attempt = thr'.caller[i].failures + 1
                /\ thr'.caller[i].waited >= TotalBackoff(thr'.caller[i].failures)
        /\ (thr.caller[i].pc = "backoff" /\ thr'.caller[i].pc # "backoff")
             => thr'.caller[i].waited - thr.caller[i].waited
                  >= BackoffDelay(thr.caller[i].attempt) ]_vars

\* The third attempt of a request is in flight after two transient failures
C12_ThirdAttempt ==
  /\ thr.caller[1].pc = "request"
  /\ thr.caller[1].failures = 2
  /\ thr.caller[1].attempt = 3
  /\ thr.caller[1].waited >= 1500

\* How far a call of requestWithRetry has come: three stages per attempt
Rank(caller) ==
  3 * caller.attempt
    + (CASE caller.pc = "throttle" -> 0 [] caller.pc = "request" -> 1 [] OTHER -> 2)

\* C13: requestWithRetry terminates: every step of a call takes it further
\* and no call gets beyond its fifth attempt; the backoff delay never
\* exceeds 4000 ms; no sleep follows the fifth attempt; and when the fifth
\* attempt fails with a retryable error that error is the one thrown.
C13_RetryTerminates ==
  [][ /\ \A i \in Callers :
           /\ thr'.caller[i].attempt <= MAX_RETRY_ATTEMPTS
           /\ thr'.caller[i].delay <= MAX_RETRY_BACKOFF_MS
           /\ thr'.caller[i].pc = "backoff" => thr'.caller[i].attempt < MAX_RETRY_ATTEMPTS
           /\ thr'.caller[i].pc # "idle" => Rank(thr'.caller[i]) <= 3 * MAX_RETRY_ATTEMPTS + 1
           /\ (thr.caller[i].pc # "idle" /\ thr'.caller[i].pc # "idle"
                  /\ thr'.caller[i] # thr.caller[i])
                => Rank(thr'.caller[i]) > Rank(thr.caller[i])
      /\ \A error \in Errors :
           (RequestThrows(1, error) /\ thr.caller[1].attempt = MAX_RETRY_ATTEMPTS)
             => (thr'.caller[1].pc = "idle" /\ thr'.caller[1].thrown = error) ]_vars

\* A call has ended by throwing a retryable error: its attempts were used up
C13_Exhausted ==
  /\ thr.caller[1].pc = "idle"
  /\ thr.caller[1].thrown # NoError
  /\ shouldRetry(thr.caller[1].thrown)

\* The failures the specification calls non-retryable: an HTTP status in
\* [400, 500) other than 429
ClientError(error) ==
  error.status # Undef /\ error.status >= 400 /\ error.status < 500 /\ error.status # 429

\* C14: a failure with a status in [400,500) other than 429 is thrown to the
\* caller at once, without a retry; every other failure (no status, 5xx,
\* 429, any other status outside [400,500)) is retried while attempts remain.
C14_RetryClasses ==
  [][ \A error \in Errors :
        RequestThrows(1, error)
          => IF ClientError(error)
               THEN thr'.caller[1].pc = "idle" /\ thr'.caller[1].thrown = error
               ELSE thr.caller[1].attempt < MAX_RETRY_ATTEMPTS
                      => thr'.caller[1].pc = "backoff" ]_vars

-----------------------------------------------------------------------------
(* Claims about the scheduler (SpecMain) *)

\* C15: at most one cycle executes at any time; a timer firing while a cycle
\* is in progress is dropped and leaves the cycle alone; the running flag is
\* set exactly while a cycle is in progress, so it is cleared when the cycle
\* ends, by return or by exception, and a firing after that starts a cycle.
C15_OneCycleAtATime ==
  [][ /\ main'.started - main'.finished <= 1
      /\ main'.isRunning <=> main'.stage # "idle"
      /\ main'.isRunning <=> main'.started > main'.finished
      /\ main'.fired # main.fired
           => IF main.stage # "idle"
                THEN /\ main'.stage = main.stage
                     /\ main'.started = main.started
                     /\ main'.dropped = main.dropped + 1
                ELSE /\ main'.stage = Stages[1]
                     /\ main'.started = main.started + 1
                     /\ main'.dropped = main.dropped ]_vars

\* A firing was dropped, that cycle has ended, and a later firing has
\* started the next cycle
C15_DroppedThenStarted ==
  /\ main.dropped >= 1
  /\ main.finished >= 1
  /\ main.started = main.finished + 1
  /\ main.started + main.dropped = main.fired + 1

\* C16: the process never exits in the middle of a cycle: when it exits no
\* cycle is in progress.
C16_NoExitMidCycle == main.exited => ~main.isRunning

-----------------------------------------------------------------------------
(* Further claims about the strategy (Spec) *)

\* C17: a failure confined to the managed symbol's update, here its
\* mark-price lookup in the first management pass, does not abort the
\* cycle: process goes on to its candidates and its second pass, so when
\* the step that follows the lookup leaves the position managed, the cycle
\* is still in progress (its second pass has that position to look at).
C17_FailureKeepsCycle ==
  [][ (tk[0].pc = "mark" /\ cyc.phase = 1 /\ tk'[0] # tk[0] /\ mapRef' # 0)
        => cyc'.phase \in {1, 2} ]_vars

-----------------------------------------------------------------------------
(* Claims about process over several symbols (SpecPasses) *)

\* C18: a position opened while the candidates of a cycle are evaluated has
\* been taken through the handlers by a management pass when that cycle's
\* process is over.
C18_OpenedGetsPass == pass.pc = "idle" => pass.opened \subseteq pass.passed

-----------------------------------------------------------------------------
(* Claims about the time stop (SpecTimeStop) *)

\* thresh = max(1, ceil(3 * parentMinutes / childMinutes))
C19_Thresh(parentMinutes, childMinutes) ==
  Max2(1, (3 * parentMinutes + childMinutes - 1) \div childMinutes)

\* C19: for a position whose maxR stays below 0.5, with wait = thresh *
\* childMinutes: an evaluation before wait minutes from the opening leaves
\* the position alone and one at or after them tightens the stop, to entry
\* -/+ 0.5 * initialSlDistance; from then on an evaluation less than wait
\* minutes after the tightening leaves the position alone and one at or
\* after them closes it.
C19_TimeStop ==
  LET state == ts.state
      wait == C19_Thresh(state.parentMinutes, state.childMinutes) * state.childMinutes
      half == state.initialSlDistance \div 2
  IN (ts.pc # "idle" /\ state.maxR < 50) =>
       /\ ts.last # "stage"
       /\ (ts.last = "noop" /\ state.timeStopStage = 0) => ts.now - state.openedAt < wait
       /\ ts.last = "tighten" => ts.now - state.openedAt >= wait
       /\ state.timeStopStage = 1 =>
            /\ state.stopPrice = (IF state.direction = "LONG" THEN state.entryPrice - half
                                  ELSE state.entryPrice + half)
            /\ state.timeStopTimestamp - state.openedAt >= wait
       /\ (ts.last = "noop" /\ state.timeStopStage = 1) => ts.now - state.timeStopTimestamp < wait
       /\ ts.last = "close" => (state.timeStopStage = 1 /\ ts.now - state.timeStopTimestamp >= wait)
       /\ ts.pc = "closed" => state.timeStopStage = 1

\* The spec's example: parent 60, child 10 minutes, tightened at or after
\* 180 minutes and closed at or after another 180
C19_ClosedByTimeStop ==
  /\ ts.pc = "closed"
  /\ ts.state.maxR < 50
  /\ ts.state.parentMinutes = 60 /\ ts.state.childMinutes = 10
  /\ ts.state.timeStopTimestamp - ts.state.openedAt >= 180
  /\ ts.now - ts.state.timeStopTimestamp >= 180

-----------------------------------------------------------------------------
(* Claims about closePosition (Spec) *)

\* C20: in every interleaving, when an invocation's closePosition has
\* completed (its last awaited call has returned and the state is deleted),
\* the symbol has no managed state and no active price-stream subscription.
C20_ClosedMeansGone ==
  [][ \A t \in ThreadIds :
        (tk[t].pc \in {"close_cancel", "close_reduce"}
           /\ tk'[t].pc \notin {"close_cancel", "close_reduce"})
          => (mapRef' = 0 /\ subs' = {}) ]_vars

-----------------------------------------------------------------------------
(* Claims about evaluateCandidate's gates (SpecGates) *)

\* C21: evaluateCandidate sends its market order only if a framework is
\* selected, the parent gives a direction, the symbol is neither managed nor
\* in the executor's cache (canOpenPosition), parent efficiency >= 45, parent
\* align >= 50, liquidityPenalty * 100 < 40, the child trigger (momentum:
\* gate >= 0.65, momentum >= 0.5 ATR, its sign not against the direction; or
\* efficiency >= 55 with volume or flow >= 55) holds and child ATR > 0; and
\* when no order is sent no managed state is created.
C21_EntryGates ==
  fn.op = "evaluateCandidate" =>
    LET in == fn.in
        parent == in.parentMetric
        child == in.childMetric
        direction == determineDirection(parent)
        momentum == /\ child.smallMoveGate >= 650
                    /\ child.momentumAtr >= 500
                    /\ \/ direction = "LONG" /\ child.netSign >= 0
                       \/ direction = "SHORT" /\ child.netSign <= 0
        confirmed == /\ child.efficiency >= 550
                     /\ (child.volumeBoost >= 550 \/ child.flowBoost >= 550)
    IN /\ fn.sent =>
            /\ in.frame # "none"
            /\ direction \in {"LONG", "SHORT"}
            /\ ~in.managed
            /\ ~in.cached
            /\ parent.efficiency >= 450
            /\ parent.align >= 500
            /\ in.penalty < 400
            /\ (momentum \/ confirmed)
            /\ child.atrValue > 0
       /\ ~fn.created

\* An order is sent for a candidate on the thresholds of the penalty and of
\* the parent's efficiency, on the momentum trigger alone
C21_SentAtThresholds ==
  /\ fn.op = "evaluateCandidate"
  /\ fn.sent
  /\ fn.in.penalty = 399
  /\ fn.in.parentMetric.efficiency = 450
  /\ fn.in.childMetric.efficiency = 549
  /\ fn.in.childMetric.smallMoveGate = 650

-----------------------------------------------------------------------------
(* Claims about the symbol universe (SpecUniverse) *)

\* C22: a refresh selects exactly the top min(80, ceil(total / 2)) tradable
\* symbols by 24h quote volume, in descending order (no symbol left out has
\* more volume than a selected one), and only symbols that appear in the
\* 24h quote-volume data are selected.
C22_TopByVolume ==
  vol.last.kind = "refreshed" =>
    LET selected == vol.last.symbols
        tradable == vol.last.tradable
        volumes == vol.last.volumes
        chosen == { selected[i] : i \in 1..Len(selected) }
        listed == { tradable[i] : i \in 1..Len(tradable) }
    IN /\ Len(selected) = Min2(80, (Len(tradable) + 1) \div 2)
       /\ Cardinality(chosen) = Len(selected)
       /\ chosen \subseteq listed
       /\ \A i \in 1..Len(selected) - 1 :
            VolumeOf(volumes, selected[i]) >= VolumeOf(volumes, selected[i + 1])
       /\ \A x \in chosen, y \in listed \ chosen : VolumeOf(volumes, x) >= VolumeOf(volumes, y)
       /\ \A x \in chosen : x \in DOMAIN volumes

-----------------------------------------------------------------------------
(* Claims about getTopMovers' batches (SpecMovers) *)

\* C24: at most 8 symbols are being processed at once, and no symbol of a
\* later chunk has started while a symbol of an earlier chunk has not yet
\* succeeded, been dropped or failed.
C24_ChunksInTurn ==
  LET started(s) == mov.status[s] # "waiting"
      finished(s) == mov.status[s] \in {"succeeded", "dropped", "failed"}
      chunkOf(s) == (s - 1) \div 8
  IN /\ Cardinality({ s \in 1..MaxMovers : mov.status[s] = "running" }) <= 8
     /\ \A s, t \in 1..MaxMovers :
          (chunkOf(t) < chunkOf(s) /\ started(s)) => finished(t)
     /\ \A s \in 1..MaxMovers : started(s) => s <= mov.symbols

\* The second chunk is running after a first chunk of eight that held a
\* success, a drop and a failure
C24_SecondChunkRunning ==
  /\ mov.status[9] = "running"
  /\ mov.status[10] \in {"running", "failed"}
  /\ \E a, b, c \in 1..8 :
       /\ mov.status[a] = "succeeded"
       /\ mov.status[b] = "dropped"
       /\ mov.status[c] = "failed"

-----------------------------------------------------------------------------
(* Claims about the snapshot of a timeframe (SpecSnapshot) *)

-----------------------------------------------------------------------------
(* Claims about the TradingService's credentials (SpecCredentials) *)

\* C26: with a credential absent no signed request and no order is ever
\* dispatched; initialize, refreshState, createMarketOrder, placeStopLoss
\* and flattenResidualPositions change nothing and return nothing,
\* canOpenPosition is false, and process leaves no managed state.
C26_NothingWithoutCredentials ==
  (trade.pc = "ready" /\ ~(trade.apiKey /\ trade.apiSecret)) =>
    /\ trade.signed = 0 /\ trade.orders = 0
    /\ trade.positions = "none" /\ trade.totalWalletBalance = 0
    /\ ~trade.dualSideConfigured /\ ~trade.configuredSymbols
    /\ ~trade.managed
    /\ trade.last.op = "canOpenPosition" => trade.last.result = "false"
    /\ trade.last.op \in {"createMarketOrder", "placeStopLoss"} => trade.last.result = "null"
    /\ trade.last.op \in {"initialize", "refreshState", "flattenResidualPositions", "process"} =>
         trade.last.result = "void"

\* The key is there, the secret is not, and an order was asked for
C26_OrderAskedWithoutSecret ==
  /\ trade.pc = "ready"
  /\ trade.apiKey /\ ~trade.apiSecret
  /\ trade.last.op = "createMarketOrder"
  /\ trade.signed = 0

-----------------------------------------------------------------------------
(* Claims about BinanceController (SpecController) *)

\* C27: each request makes exactly one call of the service's getMovers, with
\* the request's timeframe argument as it is, and returns what that call
\* answered as it is.
C27_Forwards ==
  /\ Len(ctl.calls) = Len(ctl.requests)
  /\ Len(ctl.returned) = Len(ctl.requests)
  /\ \A k \in 1..Len(ctl.requests) :
       /\ ctl.calls[k] = ctl.requests[k]
       /\ ctl.returned[k] = ctl.answers[k]

\* A request for one hour and a request without a timeframe
C27_OneHourThenAll ==
  /\ ctl.requests = <<"1h", "undefined">>
  /\ ctl.returned = <<"snapshot", "all">>

-----------------------------------------------------------------------------
(* Claims about the stage of the time stop (SpecTimeStop) *)

\* The stop of the time stop's first stage: entry -/+ 0.5 * initialSlDistance
C28_HalfStop(state) ==
  IF state.direction = "LONG" THEN state.entryPrice - state.initialSlDistance \div 2
  ELSE state.entryPrice + state.initialSlDistance \div 2

\* The child candles elapsed since the opening have reached the threshold
C28_Due(state, at) ==
  (at - state.openedAt) \div state.childMinutes
    >= C19_Thresh(state.parentMinutes, state.childMinutes)

-----------------------------------------------------------------------------
(* Claims about adds and partials (Spec) *)

\* R in hundredths: the move in the position's favour over initialSlDistance
C29_R(state, price) ==
  IF state.initialSlDistance <= 0 THEN 0
  ELSE (100 * (IF state.direction = "LONG" THEN price - state.entryPrice
               ELSE state.entryPrice - price)) \div state.initialSlDistance

\* Invocation t sends the order it then awaits at label
C29_Sends(t, label) == tk[t].pc # label /\ tk'[t].pc = label

\* The add orders sent for a position so far: those counted and those in flight
C29_AddsBefore(t) ==
  objs'[tk'[t].obj].addCount
    + Cardinality({ u \in ThreadIds \ {t} :
                      /\ tk'[u].obj = tk'[t].obj
                      /\ tk'[u].pc \in {"a1_increase", "a2_increase"} })

C29_Gates(t) ==
  LET state == objs'[tk'[t].obj]
  IN /\ state.beMoved
     /\ state.addCount < 2
     /\ state.cleanScore >= 650
     /\ state.gateScore >= 700
     /\ tk'[t].child.efficiency >= 550

\* C29: an add order is sent only when beMoved, addCount < 2, cleanP >=
\* 0.65, gateC >= 0.7 and child efficiency * 100 >= 55; the first add of a
\* position needs R >= 1 and adds 0.5 * baseQuantity, the second needs R >= 2
\* and adds 0.33 * baseQuantity; each add leaves stopPrice as it is and
\* re-places the stop once the quantity is the new total.
C29_AddRules ==
  [][ \A t \in ThreadIds :
        LET o == tk[t].obj
        IN /\ C29_Sends(t, "a1_increase") =>
                /\ C29_Gates(t)
                /\ C29_AddsBefore(t) = 0
                /\ C29_R(objs'[tk'[t].obj], tk'[t].price) >= 100
           /\ C29_Sends(t, "a2_increase") =>
                /\ C29_Gates(t)
                /\ C29_AddsBefore(t) = 1
                /\ C29_R(objs'[tk'[t].obj], tk'[t].price) >= 200
           /\ (tk[t].pc = "a1_increase" /\ tk'[t].pc = "a1_replace") =>
                /\ objs'[o].totalQuantity = objs[o].totalQuantity + (5 * objs[o].baseQuantity) \div 10
                /\ objs'[o].stopPrice = objs[o].stopPrice
           /\ (tk[t].pc = "a2_increase" /\ tk'[t].pc = "a2_replace") =>
                /\ objs'[o].totalQuantity = objs[o].totalQuantity + (33 * objs[o].baseQuantity) \div 100
                /\ objs'[o].stopPrice = objs[o].stopPrice
           /\ (tk[t].pc \in {"a1_replace", "a2_replace"} /\ tk'[t].pc # tk[t].pc
                 /\ objs'[o].live) =>
                objs'[o].stopPrice = objs[o].stopPrice ]_vars

\* cleanP >= 0.6 and gateC >= 0.7
C30_Clean(state) == state.cleanScore >= 600 /\ state.gateScore >= 700

\* The child's volume and flow scores are both >= 70
C30_StrongVolume(metric) == metric.volumeBoost >= 700 /\ metric.flowBoost >= 700

-----------------------------------------------------------------------------
(* Claims about the structure break (SpecStructure) *)

\* The ATR the evaluation works with: the child metric's, or else the one
\* the position was opened with
C31_Atr(last, state) ==
  IF last.child.atrValue # Undef THEN last.child.atrValue ELSE state.childAtr

\* The last two closes are both on the wrong side of (trailPrice or else
\* stopPrice) + dir * 0.3 * childAtr: at or below it for LONG, at or above
\* it for SHORT
C31_Breach(last, state) ==
  LET closes == last.child.closeHistory
      base == IF state.trailPrice # Undef THEN state.trailPrice ELSE state.stopPrice
      up == state.direction = "LONG"
      threshold10 == 10 * base + (IF up THEN 3 ELSE 0 - 3) * C31_Atr(last, state)
  IN \A i \in {Len(closes) - 1, Len(closes)} :
       IF up THEN 10 * closes[i] <= threshold10 ELSE 10 * closes[i] >= threshold10

\* C31: in each evaluation with at least two child closes and child ATR > 0,
\* structureBreakCounter is incremented exactly when the last two child
\* closes are both on the wrong side of the threshold and is reset to 0
\* otherwise; the evaluation closes the position for structure break
\* exactly when the counter has then reached 2.
C31_StructureBreak ==
  (brk.last.kind # "none"
     /\ Len(brk.last.child.closeHistory) >= 2 /\ C31_Atr(brk.last, brk.state) > 0) =>
    /\ brk.last.counter = (IF C31_Breach(brk.last, brk.state) THEN brk.last.before + 1 ELSE 0)
    /\ brk.last.closing <=> brk.last.counter >= 2

\* A tick handler's evaluation is the second breach in a row and closes
C31_ClosedOnSecondBreach ==
  /\ brk.last.kind = "tick"
  /\ brk.last.before = 1
  /\ brk.last.counter = 2
  /\ brk.last.closing
  /\ ~brk.managed

-----------------------------------------------------------------------------
(* Claims about selectFramework (SpecFramework) *)

\* C32: selectFramework returns (1h, 30m) when 1h exists with signedTrend
\* >= 70 and efficiency * 100 >= 55 and 30m exists; otherwise (30m, 10m)
\* when 30m and 10m exist; otherwise (1h, 30m) when 1h and 30m exist;
\* otherwise no framework, and the candidate is skipped. The 2h metric is
\* never parent or child.
C32_Framework ==
  fn.op = "selectFramework" =>
    LET metrics == fn.in
        has(label) == label \in DOMAIN metrics
        strong == /\ has("1h")
                  /\ metrics["1h"].netSign > 0
                  /\ 1000 - metrics["1h"].chop >= 700
                  /\ metrics["1h"].efficiency >= 550
        expected == IF strong /\ has("30m") THEN <<"1h", "30m">>
                    ELSE IF has("30m") /\ has("10m") THEN <<"30m", "10m">>
                    ELSE IF has("1h") /\ has("30m") THEN <<"1h", "30m">>
                    ELSE <<"none", "none">>
    IN /\ <<fn.out.parentTimeframe, fn.out.childTimeframe>> = expected
       /\ fn.out.parentTimeframe # "2h" /\ fn.out.childTimeframe # "2h"
       /\ fn.out.parentTimeframe = "none" => ~fn.sent

\* With all four timeframes and a 1h metric just below the trend of 70, the
\* framework is (30m, 10m) and the candidate is entered
C32_FallsBackToThirty ==
  /\ fn.op = "selectFramework"
  /\ DOMAIN fn.in = FrameworkLabels
  /\ fn.in["1h"].chop = 301 /\ fn.in["1h"].netSign = 1 /\ fn.in["1h"].efficiency = 550
  /\ fn.out.parentTimeframe = "30m" /\ fn.out.childTimeframe = "10m"
  /\ fn.sent

-----------------------------------------------------------------------------
(* Claims about the candle window (SpecWindow) *)

\* The candles of `candles` whose openTime is in (from, to], in their order
C33_Window(candles, from, to) ==
  LET Inside(candle) == candle.openTime > from /\ candle.openTime <= to
  IN SelectSeq(candles, Inside)

\* C33: a timeframe metric is produced only when the reference candle at
\* latest.openTime - minutes * 60000 exists and the window of candles with
\* openTime in (reference.openTime, latest.openTime] contains exactly
\* `minutes` candles with strictly increasing openTime.
C33_WindowExact ==
  fn.op = "calculateTimeframeMetrics" =>
    \A label \in fn.out :
      LET candles == fn.in
          minutes == CASE label = "10m" -> 10 [] label = "30m" -> 30
                       [] label = "1h" -> 60 [] OTHER -> 120
          latest == candles[Len(candles)].openTime
          window == C33_Window(candles, latest - minutes * 60000, latest)
      IN /\ \E i \in 1..Len(candles) : candles[i].openTime = latest - minutes * 60000
         /\ Len(window) = minutes
         /\ \A i \in 1..Len(window) - 1 : window[i].openTime < window[i + 1].openTime

\* C33 on responses without a repeated row: there the window of a produced
\* metric holds exactly `minutes` candles, one per minute
C33_WindowExactUnlessRepeated ==
  (fn.op = "calculateTimeframeMetrics" /\ fn.repeated = {}) => C33_WindowExact

-----------------------------------------------------------------------------
(* Claims about the order quantity (SpecQuantity) *)

\* C34: whenever createMarketOrder posts an order for a symbol with a
\* minNotional filter, the posted quantity is a positive multiple of
\* stepSize and quantity * markPrice >= minNotional.
C34_MeetsMinNotional ==
  (fn.op = "createMarketOrder" /\ fn.out.posted /\ fn.in.filters.minNotional # 0) =>
    /\ fn.out.quantity > 0
    /\ fn.out.quantity % fn.in.filters.stepSize = 0
    /\ fn.out.quantity * fn.in.markPrice >= fn.in.filters.minNotional * 1000

\* C34 without the bump: an order whose floored quantity already meets
\* minNotional is posted with that quantity, a positive multiple of stepSize
C34_MeetsWhenNotBumped ==
  (fn.op = "createMarketOrder" /\ fn.out.posted /\ fn.in.filters.minNotional # 0
     /\ fn.out.floored * fn.in.markPrice >= fn.in.filters.minNotional * 1000) =>
    /\ fn.out.quantity = fn.out.floored
    /\ fn.out.quantity > 0
    /\ fn.out.quantity % fn.in.filters.stepSize = 0

-----------------------------------------------------------------------------
(* Claims about applyAlignment (SpecAlignment) *)

\* The sign of a timeframe's net change; 0 when it has none
C35_Sign(metric) ==
  IF ~metric.finite THEN 0
  ELSE IF metric.changePercent > 0 THEN 1
  ELSE IF metric.changePercent < 0 THEN 0 - 1
  ELSE 0

\* The other timeframes with a non-zero-sign net change
C35_Others(metrics, label) ==
  { other \in DOMAIN metrics : other # label /\ C35_Sign(metrics[other]) # 0 }

\* (sum + 0.5 * N) / (1.5 * N), with +1 per other timeframe of the same
\* direction and -0.5 per other timeframe of the opposite one, in per-mille
C35_Formula(metrics, label) ==
  LET others == C35_Others(metrics, label)
      N == Cardinality(others)
      same == Cardinality({ o \in others : C35_Sign(metrics[o]) = C35_Sign(metrics[label]) })
  IN (1000 * (2 * same - (N - same) + N)) \div (3 * N)

-----------------------------------------------------------------------------
(* Claims about the entry order and its stop (SpecSlots) *)

\* C36: every market entry order that the exchange accepts results in a
\* managed position state with an initial stop-loss order placed: no
\* position opened by the strategy is held on the exchange while it is not
\* managed. (evaluateCandidate calls placeStopLoss only on its way to
\* recording the state: a symbol that is not managed has no stop either.)
C36_HeldIsManaged == slot.held \subseteq slot.managed

-----------------------------------------------------------------------------
(* Claims about orders after a close (Spec) *)

\* The awaits of a stop-replace, add or reduce order of a management handler
C37_Orders == OrderAwaits \ {"close_cancel", "close_reduce"}

\* Invocation a is in closePosition on the state of invocation t, its
\* cancelAllOpenOrders has returned, and t is suspended at an await
C37_CancelledUnder(a, t) ==
  /\ a # t
  /\ tk[a].pc = "close_reduce"
  /\ tk[t].obj = tk[a].obj
  /\ tk[t].pc \in OrderAwaits

\* C37: after closePosition has cancelled a symbol's open orders, no
\* stop-replace, add or reduce order is issued for that position by a
\* management pass or tick handler that was suspended at an await when the
\* close started.
C37_NoOrderAfterCancel ==
  [][ \A a, t \in ThreadIds :
        C37_CancelledUnder(a, t) =>
          (tk'[t].pc = tk[t].pc \/ tk'[t].pc \notin C37_Orders) ]_vars

\* C37 for a tick handler under the cycle's close: the handler's tick was
\* delivered before closePosition unsubscribed, so the handler was suspended
\* when the close started
C37_NoHandlerOrderAfterCancel ==
  [][ \A t \in ThreadIds \ {0} :
        C37_CancelledUnder(0, t) =>
          (tk'[t].pc = tk[t].pc \/ tk'[t].pc \notin C37_Orders) ]_vars



\* The awaits inside the first and inside the second partial reduction
C38_Stages(k) ==
  IF k = 1 THEN {"p1_reduce", "p1_replace"} ELSE {"p2_reduce", "p2_replace"}

\* Two invocations are inside the same partial reduction of one position
C38_Twice(k) ==
  \E a, t \in ThreadIds :
    /\ a # t
    /\ tk[a].obj = tk[t].obj
    /\ tk[a].pc \in C38_Stages(k)
    /\ tk[t].pc \in C38_Stages(k)

\* C38: each of the two partial reductions is executed at most once per
\* managed position under any interleaving of cycle passes and tick
\* handlers: no two invocations are ever inside the same partial reduction
\* of one position.
C38_PartialAtMostOnce == ~C38_Twice(1) /\ ~C38_Twice(2)

\* The same for a reduction sent after the flag of the partial was set
C38_NoReduceOnceTaken ==
  [][ \A t \in ThreadIds :
        /\ C29_Sends(t, "p1_reduce") => ~objs[tk'[t].obj].partialOneTaken
        /\ C29_Sends(t, "p2_reduce") => ~objs[tk'[t].obj].partialTwoTaken ]_vars


\* maxR of a position never decreases
C39_MaxRMonotone ==
  [][ \A o \in ObjIds :
        (objs[o].live /\ objs'[o].live) => objs'[o].maxR >= objs[o].maxR ]_vars

\* A position whose stop was moved to break-even has reached R = 1.0
C39_BreakEvenAboveOne ==
  \A o \in ObjIds : (objs[o].live /\ objs[o].beMoved) => objs[o].maxR >= 100

\* The time stop sends its tighter stop or closes
C39_TimeStopStarts(t) ==
  \/ C29_Sends(t, "ts_replace")
  \/ C29_Sends(t, "close_cancel") /\ tk'[t].k = "ts"

\* The time stop writes its tighter stop
C39_TimeStopWrites(t) == tk[t].pc = "ts_replace" /\ tk'[t].pc # "ts_replace"

\* The time stop never decides to tighten or to close at break-even
C39_TimeStopDecidesBelowBreakEven ==
  [][ \A t \in ThreadIds :
        C39_TimeStopStarts(t) => ~objs[tk'[t].obj].beMoved ]_vars

\* C39: maxR is monotone non-decreasing over the life of a position and
\* beMoved implies maxR >= 1.0; consequently the time stop, which requires
\* maxR < 0.5, never tightens the stop of and never closes a position whose
\* stop has been moved to break-even: it neither decides to nor writes its
\* stop on such a position.
C39_TimeStopSparesBreakEven ==
  /\ C39_MaxRMonotone
  /\ []C39_BreakEvenAboveOne
  /\ [][ \A t \in ThreadIds :
           /\ C39_TimeStopStarts(t) => ~objs[tk'[t].obj].beMoved
           /\ C39_TimeStopWrites(t) => ~objs[tk[t].obj].beMoved ]_vars


-----------------------------------------------------------------------------
(* Claims about the progress of the rate limiter (SpecThrottleFair) *)

\* What is left of the chain after some of its first links have resolved
C40_Suffixes(chain) == { SubSeq(chain, k, Len(chain)) : k \in 1..(Len(chain) + 1) }

\* Links resolve from the head of the chain and join at its end, and the
\* caller whose request starts is the one that asked first
C40_InCallOrder ==
  [][ /\ \E rest \in C40_Suffixes(thr.chain) :
           \/ thr'.chain = rest
           \/ \E i \in Callers : thr'.chain = Append(rest, i)
      /\ \A i \in Callers :
           (thr.caller[i].pc = "throttle" /\ thr'.caller[i].pc = "request")
             => Head(thr.chain) = i ]_vars

\* C40: the chain of the rate limiter never deadlocks or breaks: every call
\* of throttle() eventually obtains its slot, in call order, whatever became
\* of the requests before it, so every call of requestWithRetry eventually
\* returns a response or throws, under fair scheduling of timers.
C40_EveryCallSettles ==
  /\ C40_InCallOrder
  /\ \A i \in Callers :
       /\ (thr.caller[i].pc = "throttle") ~> (thr.caller[i].pc = "request")
       /\ (thr.caller[i].pc # "idle") ~> (thr.caller[i].pc = "idle")

\* A caller's retry has obtained its slot after its earlier request failed,
\* while the other caller's link waits behind it for the interval to pass
C40_RetrySlotAheadOfWaiter ==
  \E i, j \in Callers :
    /\ i # j
    /\ thr.caller[i].pc = "request"
    /\ thr.caller[i].failures >= 1
    /\ thr.caller[j].pc = "throttle"
    /\ thr.chain = <<j>>

====
